---- MODULE Spec2Model ----
(***************************************************************************)
(* Model of the RAG2WP generation core: the retry loop around the model    *)
(* call (modules/generation/gemini.py) and the JSON repair functions       *)
(* (modules/generation/validation.py).                                     *)
(*                                                                         *)
(* Text is a sequence of lexemes.  A lexeme is one structural character    *)
(* ( { } " : , [ ] $ \ space newline ), the three-backtick fence, one control   *)
(* or Thai character, or a word: a run of letters/digits such as title or  *)
(* x that contains no structural character.  Every regular expression of   *)
(* the source is transcribed element by element and run by a backtracking  *)
(* matcher with Python's leftmost, greedy/lazy semantics.                  *)
(***************************************************************************)
EXTENDS Integers, Sequences, FiniteSets, TLC

(***************************** lexemes *************************************)
Quote == "\""
BSl   == "\\"
NL    == "\n"
SP    == " "
Fence == "FENCE"   \* the three-backtick code fence
Ctl1  == "U+0001"
Ctl2  == "U+0002"
Tab   == "U+0009"
Thai  == "U+0E01"
Apos  == "'"        \* the quote of Python's repr

Structural == {"{", "}", Quote, ":", ",", "[", "]", "$", BSl, SP, NL, Fence}
\* words: prose runs without structural characters
Words == {"x", "y", "json", "title", "itle", "n", "t", "u0001", "u0002", "u0e01", "SEO", "content", "intro", "Part 1", "Part 2",
          "sections", "conclusion", "seo", "slug", "metaTitle", "metaDescription",
          "excerpt", "imagePrompt", "altText", "Bitcoin Rally", "Price surged",
          "Stay tuned", "Untitled Article", "Hello world", "Untitled", "-",
          "untitled", "untitled-article", "hello-world", "bitcoin-rally",
          "price-surged", "stay-tuned", "part-1", "part-2", "metatitle",
          "metadescription", "imageprompt", "alttext", "heading", "introduction",
          "media", "images", "twitter_embeds", "x01", "x02", "format", "paragraph",
          "paragraphs", "list", "table", "url", "Latest News about",
          "Latest Updates on", "Latest news and updates about",
          "Stay updated with the latest", "developments",
          "A photorealistic scene showing", "in a professional setting",
          "latest updates and developments"}
Alphabet == Structural \cup Words \cup {Ctl1, Ctl2, Tab, Thai, Apos}

\* character classes: [s |-> set, neg |-> negated]
Cls(S)    == [s |-> S, neg |-> FALSE]
NotCls(S) == [s |-> S, neg |-> TRUE]
InCls(c, ch) == (ch \in c.s) # c.neg
WSCh     == {SP, NL, Tab}
WS       == Cls(WSCh)                \* \s
WordCh   == Words \cup {Thai}        \* lexemes that begin with a \w character
ThaiCh   == {Thai}                   \* the Thai block U+0E00..U+0E7F
AnyCh    == NotCls({})               \* [\s\S], and . under re.DOTALL
NotQuote == NotCls({Quote})          \* [^"]
NotBrace == NotCls({"{", "}"})       \* [^{}]
NotClose == NotCls({"}"})            \* [^}]
\* words whose first letter is one of b f n r t (a JSON escape letter)
EscLetterWords == {"title", "n", "t"}

\* Every operator that stands for a function of the program or of its
\* libraries is applied through Call, by name, as the interpreter applies a
\* function object: Call is defined after them all.
RECURSIVE Call(_, _)

Min(a, b) == IF a < b THEN a ELSE b
Max(a, b) == IF a > b THEN a ELSE b

\* str.count(ch) for a one-lexeme needle
Count(s, ch) == Cardinality({i \in 1..Len(s) : s[i] = ch})

\* ch * n
Repeat(ch, n) == [i \in 1..n |-> ch]

RECURSIVE FoldRange(_, _, _, _)
\* Step(...Step(Step(st, lo), lo + 1)..., hi): a loop over the positions
\* lo..hi in order, evaluated by halving the range
FoldRange(Step(_, _), st, lo, hi) ==
    IF lo > hi THEN st
    ELSE IF lo = hi THEN Step(st, lo)
    ELSE LET mid  == (lo + hi) \div 2
             left == FoldRange(Step, st, lo, mid)
         IN \* the test makes TLC compute left before the right half starts
            IF left = left THEN FoldRange(Step, left, mid + 1, hi) ELSE st

RECURSIVE FlatRange(_, _, _)
FlatRange(ss, lo, hi) ==
    IF lo > hi THEN <<>>
    ELSE IF lo = hi THEN ss[lo]
    ELSE LET mid == (lo + hi) \div 2
         IN FlatRange(ss, lo, mid) \o FlatRange(ss, mid + 1, hi)

\* ''.join(ss)
Flatten(ss) == FlatRange(ss, 1, Len(ss))

\* str.strip()
Strip(s) ==
    LET keep == {i \in 1..Len(s) : s[i] \notin WSCh} IN
    IF keep = {} THEN <<>>
    ELSE SubSeq(s, CHOOSE i \in keep : \A j \in keep : i <= j,
                   CHOOSE i \in keep : \A j \in keep : j <= i)

StartsWith(s, ch) == s # <<>> /\ Head(s) = ch
EndsWith(s, ch)   == s # <<>> /\ s[Len(s)] = ch
Contains(s, ch)   == \E i \in 1..Len(s) : s[i] = ch

(************************ regular expressions ******************************)
\* A pattern is a sequence of elements [c |-> class, q |-> quantifier],
\* q one of "1" "?" "*" "+" "*?" (lazy) "$" (end) "$m" (end of line).
Lit(ch)  == [c |-> Cls({ch}), q |-> "1"]
One(S)   == [c |-> S, q |-> "1"]
Opt(S)   == [c |-> S, q |-> "?"]
Star(S)  == [c |-> S, q |-> "*"]
Plus(S)  == [c |-> S, q |-> "+"]
Lazy(S)  == [c |-> S, q |-> "*?"]
EndA     == [c |-> Cls({}), q |-> "$"]
EndLine  == [c |-> Cls({}), q |-> "$m"]
\* the quoted literal "w"
QLit(w)  == <<Lit(Quote), Lit(w), Lit(Quote)>>

\* number of consecutive lexemes of s from position p that lie in class c
Run(c, s, p) ==
    LET stop == {q \in p..(Len(s) + 1) : q = Len(s) + 1 \/ ~InCls(c, s[q])}
    IN (CHOOSE q \in stop : \A r \in stop : q <= r) - p

\* no lexeme lies in both classes
Disjoint(c, d) ==
    CASE ~c.neg /\ ~d.neg -> c.s \cap d.s = {}
      [] ~c.neg /\ d.neg  -> c.s \subseteq d.s
      [] c.neg /\ ~d.neg  -> d.s \subseteq c.s
      [] OTHER            -> FALSE

\* the last of the elements k.. that take exactly one lexeme each
BlockEnd(re, k) ==
    CHOOSE j \in k..Len(re) :
        /\ \A i \in k..j : re[i].q = "1"
        /\ j = Len(re) \/ re[j + 1].q # "1"

\* a repetition that is followed by a one-lexeme element of a disjoint
\* class can only take its whole run: with fewer, the next lexeme is still
\* one of the repeated class
Possessive(re, k) ==
    k < Len(re) /\ re[k + 1].q = "1" /\ Disjoint(re[k].c, re[k + 1].c)

\* the one-lexeme elements k..j match the lexemes of s from p on
LitsAt(re, k, j, s, p) ==
    \A i \in k..j : p + i - k <= Len(s) /\ InCls(re[i].c, s[p + i - k])

\* the start positions of n elements that take one lexeme each from p on
Starts(p, n) == [i \in 1..n |-> p + i - 1]

RECURSIVE ReS(_, _, _, _)
\* element k takes one of lo..hi lexemes at p, the most (greedy) or the
\* fewest (lazy) that lets the rest of the pattern match
ReTry(re, k, s, p, lo, hi, greedy) ==
    LET good == {r \in {<<n, ReS(re, k + 1, s, p + n)>> : n \in lo..hi} : r[2] # {}}
    IN IF good = {} THEN {}
       ELSE LET r == CHOOSE x \in good :
                         \A y \in good : IF greedy THEN y[1] <= x[1] ELSE x[1] <= y[1]
            IN {<<p>> \o m : m \in r[2]}

\* the match of elements k.. of re at position p of s, as a set: empty when
\* there is no match, else the one match.  A run of one-lexeme elements is
\* matched in one step, and so is a possessive repetition with the
\* one-lexeme elements that follow it.
ReS(re, k, s, p) ==
    CASE k > Len(re) -> {<<p>>}
      [] re[k].q = "1" /\ LitsAt(re, k, BlockEnd(re, k), s, p)
            -> {Starts(p, BlockEnd(re, k) - k + 1) \o m :
                   m \in ReS(re, BlockEnd(re, k) + 1, s, p + BlockEnd(re, k) - k + 1)}
      [] re[k].q = "$" /\ p = Len(s) + 1
            -> {<<p>> \o m : m \in ReS(re, k + 1, s, p)}
      [] re[k].q = "$m" /\ (p = Len(s) + 1 \/ (p <= Len(s) /\ s[p] = NL))
            -> {<<p>> \o m : m \in ReS(re, k + 1, s, p)}
      [] re[k].q \in {"*", "+", "*?"} /\ Possessive(re, k)
         /\ (re[k].q = "+" => Run(re[k].c, s, p) >= 1)
         /\ LitsAt(re, k + 1, BlockEnd(re, k + 1), s, p + Run(re[k].c, s, p))
            -> {<<p>> \o Starts(p + Run(re[k].c, s, p), BlockEnd(re, k + 1) - k) \o m :
                   m \in ReS(re, BlockEnd(re, k + 1) + 1, s,
                             p + Run(re[k].c, s, p) + BlockEnd(re, k + 1) - k)}
      [] re[k].q \in {"*", "+", "*?"} /\ Possessive(re, k) -> {}
      [] re[k].q = "?"  -> ReTry(re, k, s, p, 0, Min(Run(re[k].c, s, p), 1), TRUE)
      [] re[k].q = "*"  -> ReTry(re, k, s, p, 0, Run(re[k].c, s, p), TRUE)
      [] re[k].q = "+"  -> ReTry(re, k, s, p, 1, Run(re[k].c, s, p), TRUE)
      [] re[k].q = "*?" -> ReTry(re, k, s, p, 0, Run(re[k].c, s, p), FALSE)
      [] OTHER -> {}

\* match elements k.. of re at position p of s: <<>> when there is no match,
\* else the start position of each element k.. followed by the end position
ReM(re, k, s, p) ==
    LET found == ReS(re, k, s, p)
    IN IF found = {} THEN <<>> ELSE CHOOSE m \in found : TRUE

\* re.search from position p: the leftmost match, or <<>>
re_search(re, s, p) ==
    LET at == {r \in {<<q, ReM(re, 1, s, q)>> : q \in p..(Len(s) + 1)} : r[2] # <<>>}
    IN IF at = {} THEN <<>>
       ELSE (CHOOSE x \in at : \A y \in at : x[1] <= y[1])[2]

ReSearch(re, s, p) == Call("re_search", <<re, s, p>>)

ReFound(re, s) == ReSearch(re, s, 1) # <<>>
MStart(m)      == m[1]
MEnd(m)        == m[Len(m)]
\* text matched by elements a..b of the pattern
Group(m, s, a, b) == SubSeq(s, m[a], m[b + 1] - 1)

\* replacement templates: literal text, or the text of elements a..b
RLit(t)    == [a |-> 0, b |-> 0, lit |-> t]
RGrp(a, b) == [a |-> a, b |-> b, lit |-> <<>>]

RECURSIVE Expand(_, _, _)
Expand(repl, m, s) ==
    IF repl = <<>> THEN <<>>
    ELSE LET h == Head(repl) IN
         (IF h.a = 0 THEN h.lit ELSE Group(m, s, h.a, h.b))
             \o Expand(Tail(repl), m, s)

RECURSIVE ReSubFrom(_, _, _, _)
ReSubFrom(re, repl, s, p) ==
    LET m == ReSearch(re, s, p) IN
    IF m = <<>> THEN SubSeq(s, p, Len(s))
    ELSE IF MEnd(m) = MStart(m)
         THEN SubSeq(s, p, Min(MStart(m), Len(s))) \o Expand(repl, m, s)
                  \o ReSubFrom(re, repl, s, MStart(m) + 1)
         ELSE SubSeq(s, p, MStart(m) - 1) \o Expand(repl, m, s)
                  \o ReSubFrom(re, repl, s, MEnd(m))

\* re.sub(re, repl, s): every non-overlapping match, left to right
re_sub(re, repl, s) == ReSubFrom(re, repl, s, 1)

ReSub(re, repl, s) == Call("re_sub", <<re, repl, s>>)

(******************************* JSON **************************************)
\* Values: [t |-> "str", v |-> text], [t |-> "obj", v |-> sequence of
\* [k |-> key text, val |-> value]] in insertion order, [t |-> "arr", v |->
\* sequence of values].  The lexeme alphabet has no number, true, false or
\* null, so a bare word is never a value.
JStr(t) == [t |-> "str", v |-> t]
JObj(m) == [t |-> "obj", v |-> m]
JArr(a) == [t |-> "arr", v |-> a]
NoVal   == [t |-> "none", v |-> <<>>]
PFail(p)     == [ok |-> FALSE, val |-> NoVal, pos |-> p]
POk(val, p)  == [ok |-> TRUE, val |-> val, pos |-> p]
\* characters json.loads (strict) rejects inside a string
CtlCh == {NL, Ctl1, Ctl2, Tab}

IsObj(d) == d.t = "obj"
IsArr(d) == d.t = "arr"
IsStr(d) == d.t = "str"
ObjHas(d, k) == IsObj(d) /\ \E i \in 1..Len(d.v) : d.v[i].k = k
ObjGet(d, k) == d.v[CHOOSE i \in 1..Len(d.v) : d.v[i].k = k].val
\* dict[k] = val: a repeated key keeps its place and takes the last value
ObjPut(m, k, val) ==
    IF \E i \in 1..Len(m) : m[i].k = k
    THEN [i \in 1..Len(m) |-> IF m[i].k = k THEN [k |-> k, val |-> val] ELSE m[i]]
    ELSE Append(m, [k |-> k, val |-> val])
\* Python truthiness of a parsed value
Truthy(d) == d.t # "none" /\ d.v # <<>>
\* dict.get(k) is truthy
HasTruthy(d, k) == ObjHas(d, k) /\ Truthy(ObjGet(d, k))

SkipWS(s, p) == p + Run(WS, s, p)

\* decoding of backslash + lexeme n inside a string: <<>> when invalid
Unescape(n) ==
    CASE n \in {Quote, BSl} -> <<n>>
      [] n = "n"     -> <<NL>>
      [] n = "t"     -> <<Tab>>
      [] n = "title" -> <<Tab, "itle">>
      [] n = "u0001" -> <<Ctl1>>
      [] n = "u0002" -> <<Ctl2>>
      [] n = "u0e01" -> <<Thai>>
      [] OTHER       -> <<>>

\* one character of a string body: st.m is "scan", "esc" (after a
\* backslash), "done" (closing quote seen at st.pos - 1) or "fail"
PStrStep(s, st, i) ==
    IF st.m \in {"done", "fail"} THEN st
    ELSE IF st.m = "esc"
         THEN IF Unescape(s[i]) = <<>> THEN [st EXCEPT !.m = "fail", !.pos = i - 1]
              ELSE [st EXCEPT !.m = "scan", !.acc = @ \o Unescape(s[i])]
    ELSE IF s[i] = Quote THEN [st EXCEPT !.m = "done", !.pos = i + 1]
    ELSE IF s[i] = BSl THEN [st EXCEPT !.m = "esc"]
    ELSE IF s[i] \in CtlCh THEN [st EXCEPT !.m = "fail", !.pos = i]
    ELSE [st EXCEPT !.acc = Append(@, s[i])]

\* the end of the chunk that starts at p: the next quote, or the end of s
NextQuote(s, p) ==
    IF \E i \in p..Len(s) : s[i] = Quote
    THEN CHOOSE i \in p..Len(s) : s[i] = Quote /\ \A j \in p..(i - 1) : s[j] # Quote
    ELSE Len(s)

RECURSIVE ScanFrom(_, _, _)
\* the scan goes on after a chunk that ended at an escaped quote
ScanNext(s, q, st) ==
    CASE st.m \in {"done", "fail"} \/ q >= Len(s) -> st
      [] OTHER -> ScanFrom(s, q + 1, st)

ScanFrom(s, p, st) ==
    ScanNext(s, NextQuote(s, p),
             FoldRange(LAMBDA x, i : PStrStep(s, x, i), st, p, NextQuote(s, p)))

ScanResult(st) == IF st.m = "done" THEN POk(JStr(st.acc), st.pos) ELSE PFail(st.pos)

\* scan a string body from p (after the opening quote)
py_scanstring(s, p, acc) ==
    ScanResult(ScanFrom(s, p, [m |-> "scan", acc |-> acc, pos |-> Len(s) + 1]))

PStr(s, p, acc) == py_scanstring(s, p, acc)

RECURSIVE PMembers(_, _, _), PElements(_, _, _), scan_once(_, _)
PValue(s, p) == scan_once(s, p)

\* after a value of an object: "}" ends it, "," goes on to the next pair
PAfterVal(s, acc, key, val) ==
    CASE ~val.ok -> val
      [] SkipWS(s, val.pos) > Len(s) -> PFail(SkipWS(s, val.pos))
      [] s[SkipWS(s, val.pos)] = "}" ->
             POk(JObj(ObjPut(acc, key.val.v, val.val)), SkipWS(s, val.pos) + 1)
      [] s[SkipWS(s, val.pos)] = "," ->
             PMembers(s, SkipWS(s, SkipWS(s, val.pos) + 1), ObjPut(acc, key.val.v, val.val))
      [] OTHER -> PFail(SkipWS(s, val.pos))

\* after a key: the colon, then the value
PAfterKey(s, acc, key) ==
    CASE ~key.ok -> key
      [] SkipWS(s, key.pos) > Len(s) \/ s[SkipWS(s, key.pos)] # ":" ->
             PFail(SkipWS(s, key.pos))
      [] OTHER -> PAfterVal(s, acc, key, PValue(s, SkipWS(s, SkipWS(s, key.pos) + 1)))

\* "key" : value pairs from p, which must be at a quote
PMembers(s, p, acc) ==
    CASE p > Len(s) \/ s[p] # Quote -> PFail(p)
      [] OTHER -> PAfterKey(s, acc, PStr(s, p + 1, <<>>))

\* after an element of an array: "]" ends it, "," goes on to the next one
PAfterElement(s, acc, val) ==
    CASE ~val.ok -> val
      [] SkipWS(s, val.pos) > Len(s) -> PFail(SkipWS(s, val.pos))
      [] s[SkipWS(s, val.pos)] = "]" -> POk(JArr(Append(acc, val.val)), SkipWS(s, val.pos) + 1)
      [] s[SkipWS(s, val.pos)] = "," ->
             PElements(s, SkipWS(s, SkipWS(s, val.pos) + 1), Append(acc, val.val))
      [] OTHER -> PFail(SkipWS(s, val.pos))

PElements(s, p, acc) == PAfterElement(s, acc, PValue(s, p))

\* one JSON value at p
scan_once(s, p) ==
    CASE p > Len(s) -> PFail(p)
      [] s[p] = Quote -> PStr(s, p + 1, <<>>)
      [] s[p] = "{" /\ SkipWS(s, p + 1) <= Len(s) /\ s[SkipWS(s, p + 1)] = "}" ->
             POk(JObj(<<>>), SkipWS(s, p + 1) + 1)
      [] s[p] = "{" -> PMembers(s, SkipWS(s, p + 1), <<>>)
      [] s[p] = "[" /\ SkipWS(s, p + 1) <= Len(s) /\ s[SkipWS(s, p + 1)] = "]" ->
             POk(JArr(<<>>), SkipWS(s, p + 1) + 1)
      [] s[p] = "[" -> PElements(s, SkipWS(s, p + 1), <<>>)
      [] OTHER -> PFail(p)

\* nothing but whitespace may follow the value
LoadsEnd(s, r) ==
    CASE ~r.ok -> r
      [] SkipWS(s, r.pos) = Len(s) + 1 -> r
      [] OTHER -> PFail(SkipWS(s, r.pos))

\* json.loads: ok = FALSE stands for json.JSONDecodeError
json_loads(s) ==
    LoadsEnd(s, PValue(s, SkipWS(s, 1)))

JsonLoads(s) == Call("json_loads", <<s>>)

Parses(s) == JsonLoads(s).ok

\* json.dumps of one string character (ensure_ascii is on)
EncodeCh(ch) ==
    CASE ch \in {Quote, BSl} -> <<BSl, ch>>
      [] ch = NL   -> <<BSl, "n">>
      [] ch = Tab  -> <<BSl, "t">>
      [] ch = Ctl1 -> <<BSl, "u0001">>
      [] ch = Ctl2 -> <<BSl, "u0002">>
      [] ch = Thai -> <<BSl, "u0e01">>
      [] OTHER     -> <<ch>>

EncodeStr(t) == Flatten([i \in 1..Len(t) |-> EncodeCh(t[i])])

RECURSIVE JsonDumps(_), DumpMembers(_), DumpElements(_)
\* json.dumps with the default separators ", " and ": "
JsonDumps(d) ==
    CASE d.t = "str" -> <<Quote>> \o EncodeStr(d.v) \o <<Quote>>
      [] d.t = "obj" -> <<"{">> \o DumpMembers(d.v) \o <<"}">>
      [] d.t = "arr" -> <<"[">> \o DumpElements(d.v) \o <<"]">>

DumpMembers(m) ==
    IF m = <<>> THEN <<>>
    ELSE <<Quote>> \o EncodeStr(Head(m).k) \o <<Quote, ":", SP>> \o JsonDumps(Head(m).val)
             \o (IF Len(m) > 1 THEN <<",", SP>> \o DumpMembers(Tail(m)) ELSE <<>>)

DumpElements(a) ==
    IF a = <<>> THEN <<>>
    ELSE JsonDumps(Head(a))
             \o (IF Len(a) > 1 THEN <<",", SP>> \o DumpElements(Tail(a)) ELSE <<>>)

(******************* modules/generation/validation.py **********************)
\* ```(?:json)?\s*({[\s\S]*?})\s*```   (the group is elements 4..6)
FencedObjectRe ==
    <<Lit(Fence), Opt(Cls({"json"})), Star(WS), Lit("{"), Lazy(AnyCh), Lit("}"), Star(WS),
      Lit(Fence)>>
\* ({[\s\S]*?})
FirstObjectRe == <<Lit("{"), Lazy(AnyCh), Lit("}")>>
\* ```(?:json)?\s*|```   (the second alternative matches nothing the first does not)
CodeMarkerRe == <<Lit(Fence), Opt(Cls({"json"})), Star(WS)>>
\* \{\s*"title".*"content"\s*:\s*\{\s*"intro"\s*:\s*\{\s*"Part 1"\s*:.*"Part 2"\s*:.*\}\s*$
IntroMissingCloseRe ==
    <<Lit("{"), Star(WS)>> \o QLit("title") \o <<Star(AnyCh)>> \o QLit("content")
        \o <<Star(WS), Lit(":"), Star(WS), Lit("{"), Star(WS)>> \o QLit("intro")
        \o <<Star(WS), Lit(":"), Star(WS), Lit("{"), Star(WS)>> \o QLit("Part 1")
        \o <<Star(WS), Lit(":"), Star(AnyCh)>> \o QLit("Part 2")
        \o <<Star(WS), Lit(":"), Star(AnyCh), Lit("}"), Star(WS), EndA>>
\* "([^"]+)"\s*:\s*"([^"]*)"\s+"
MissingCommaRe ==
    <<Lit(Quote), Plus(NotQuote), Lit(Quote), Star(WS), Lit(":"), Star(WS), Lit(Quote),
      Star(NotQuote), Lit(Quote), Plus(WS), Lit(Quote)>>
\* the replacement '"\1": "\2", "' is not a raw string: \1 and \2 are the
\* characters U+0001 and U+0002, not the groups
MissingCommaRepl ==
    <<RLit(<<Quote, Ctl1, Quote, ":", SP, Quote, Ctl2, Quote, ",", SP, Quote>>)>>
\* "([^"]+)"\s*:\s*\{([^{}]*)\}\s+"
MissingCommaObjRe ==
    <<Lit(Quote), Plus(NotQuote), Lit(Quote), Star(WS), Lit(":"), Star(WS), Lit("{"),
      Star(NotBrace), Lit("}"), Plus(WS), Lit(Quote)>>
\* '"\1": {\2}, "'
MissingCommaObjRepl ==
    <<RLit(<<Quote, Ctl1, Quote, ":", SP, "{", Ctl2, "}", ",", SP, Quote>>)>>
\* }\s*\n\s*"   ->   }, "
BraceNewlineQuoteRe == <<Lit("}"), Star(WS), Lit(NL), Star(WS), Lit(Quote)>>
\* "\s*\n\s*{   ->   ", {
QuoteNewlineBraceRe == <<Lit(Quote), Star(WS), Lit(NL), Star(WS), Lit("{")>>
\* "title"\s*:\s*"([^"]*)"   (the group is element 8)
TitleRe == QLit("title") \o <<Star(WS), Lit(":"), Star(WS), Lit(Quote), Star(NotQuote),
                              Lit(Quote)>>
\* "intro"\s*:\s*\{([^{}]*)\}   (the group is element 8)
IntroObjRe == QLit("intro") \o <<Star(WS), Lit(":"), Star(WS), Lit("{"), Star(NotBrace),
                                 Lit("}")>>
\* "Part 1"\s*:\s*"([^"]*)"   (the group is element 8)
PartRe(w) == QLit(w) \o <<Star(WS), Lit(":"), Star(WS), Lit(Quote), Star(NotQuote),
                          Lit(Quote)>>

\* create_safe_json_from_parts: the document, before json.dumps
SafeParts(text) ==
    LET tm == ReSearch(TitleRe, text, 1)
        title == IF tm # <<>> THEN Group(tm, text, 8, 8) ELSE <<"Untitled Article">>
        im == ReSearch(IntroObjRe, text, 1)
        introText == IF im # <<>> THEN Group(im, text, 8, 8) ELSE <<>>
        p1 == ReSearch(PartRe("Part 1"), introText, 1)
        p2 == ReSearch(PartRe("Part 2"), introText, 1)
        m1 == IF p1 # <<>>
              THEN <<[k |-> <<"Part 1">>, val |-> JStr(Group(p1, introText, 8, 8))]>>
              ELSE <<>>
        m2 == IF p2 # <<>>
              THEN <<[k |-> <<"Part 2">>, val |-> JStr(Group(p2, introText, 8, 8))]>>
              ELSE <<>>
        content == IF im # <<>> /\ (p1 # <<>> \/ p2 # <<>>)
                   THEN <<[k |-> <<"intro">>, val |-> JObj(m1 \o m2)]>>
                   ELSE <<>>
    IN JObj(<<[k |-> <<"title">>, val |-> JStr(title)],
              [k |-> <<"content">>, val |-> JObj(content)]>>)

\* a salvage that also puts an empty sections list into the content
CreateSafePadded(text) ==
    LET d == SafeParts(text)
        content == ObjGet(d, <<"content">>)
    IN JsonDumps(JObj(ObjPut(d.v, <<"content">>,
                             JObj(ObjPut(content.v, <<"sections">>, JArr(<<>>))))))

create_safe_json_from_parts(text) == JsonDumps(SafeParts(text))

\* one turn of the loop over the characters: st.out is fixed_text without
\* the unmatched closing braces (fixed_positions), st.depth the size of
\* the stack of open braces
BalanceStep(text, st, i) ==
    LET ch == text[i]
        ins == IF ch = Quote /\ (i = 1 \/ text[i - 1] # BSl)
               THEN ~st.in_string ELSE st.in_string
    IN IF ins THEN [st EXCEPT !.in_string = ins, !.out = Append(@, ch)]
       ELSE IF ch = "{"
            THEN [in_string |-> ins, depth |-> st.depth + 1, out |-> Append(st.out, ch)]
       ELSE IF ch = "}" /\ st.depth > 0
            THEN [in_string |-> ins, depth |-> st.depth - 1, out |-> Append(st.out, ch)]
       ELSE IF ch = "}"
            THEN [in_string |-> ins, depth |-> st.depth, out |-> st.out]
       ELSE [in_string |-> ins, depth |-> st.depth, out |-> Append(st.out, ch)]

BalanceScan(text) ==
    FoldRange(LAMBDA st, i : BalanceStep(text, st, i),
              [in_string |-> FALSE, depth |-> 0, out |-> <<>>], 1, Len(text))

\* the last check of the balancing step: end with a closing brace
EnsureClosed(t) == IF ~EndsWith(t, "}") THEN Append(t, "}") ELSE t

\* fix_json_structure, step 3: the brace-balancing step
BalanceBraces(text) ==
    LET sc == BalanceScan(text)
    IN EnsureClosed(sc.out \o Repeat("}", sc.depth))

\* fix_json_structure up to and including the balancing step
FixSyntax(text) ==
    LET t1 == IF ~StartsWith(text, "{") THEN <<"{">> \o text ELSE text
        t2 == ReSub(MissingCommaRe, MissingCommaRepl, t1)
        t3 == ReSub(MissingCommaObjRe, MissingCommaObjRepl, t2)
        t4 == ReSub(BraceNewlineQuoteRe, <<RLit(<<"}", ",", SP, Quote>>)>>, t3)
        t5 == ReSub(QuoteNewlineBraceRe, <<RLit(<<Quote, ",", SP, "{">>)>>, t4)
    IN t5

\* the text the balancing step of fix_json_structure works on and produces
BalanceInput(text)  == FixSyntax(text)
BalanceOutput(text) == BalanceBraces(FixSyntax(text))

\* one stage of a repair run: its name, the text it produced and whether
\* json.loads accepts that text
Stage(name, text) == [stage |-> name, text |-> text, ok |-> Parses(text)]

\* the stages fix_json_structure runs, in order.  Both branches of the Thai
\* check that follows a failed parse return
\* create_safe_json_from_parts(fixed_text).
FixTrace(text) ==
    LET closed == text \o <<"}", "}", "}">>
        fixed  == BalanceOutput(text)
    IN IF ReFound(IntroMissingCloseRe, text) /\ Parses(closed)
       THEN <<Stage("intro_close", closed)>>
       ELSE IF Parses(fixed) THEN <<Stage("balance", fixed)>>
       ELSE <<Stage("balance", fixed),
              Stage("salvage", Call("create_safe_json_from_parts", <<fixed>>))>>

\* fix_json_structure: the text of the last stage
fix_json_structure(text) ==
    LET tr == Call("FixTrace", <<text>>) IN tr[Len(tr)].text

\* which branch of fix_json_structure produced the result
FixStage(text) ==
    IF ReFound(IntroMissingCloseRe, text) /\ Parses(text \o <<"}", "}", "}">>)
    THEN "intro_close"
    ELSE IF Parses(BalanceOutput(text)) THEN "balanced" ELSE "salvage"

\* the text clean_gemini_response extracts, before fix_json_structure
VExtract(text) ==
    LET m1 == ReSearch(FencedObjectRe, text, 1)
        m2 == ReSearch(FirstObjectRe, text, 1)
    IN IF m1 # <<>> THEN Strip(Group(m1, text, 4, 6))
       ELSE IF m2 # <<>> THEN Strip(Group(m2, text, 1, 3))
       ELSE Strip(ReSub(CodeMarkerRe, <<>>, text))

\* validation.clean_gemini_response (the tenacity wrapper only acts on an
\* exception, and none is raised for a string)
VClean(text) == Call("fix_json_structure", <<VExtract(text)>>)

\* the stages of validation.clean_gemini_response
CleanTrace(text) ==
    LET ex == VExtract(text) IN <<Stage("extract", ex)>> \o Call("FixTrace", <<ex>>)

contains_thai_text(text) == \E i \in 1..Len(text) : text[i] \in ThaiCh

\* the elements of a set of positions in increasing order
Sorted(S) == [k \in 1..Cardinality(S) |->
                 CHOOSE x \in S : Cardinality({y \in S : y < x}) = k - 1]

\* re.sub(r'(?<=[^\\])\$(\w+)', r'\\$\1', content)
EscapeTicker(c) ==
    Flatten([i \in 1..Len(c) |->
        IF c[i] = "$" /\ i > 1 /\ c[i - 1] # BSl /\ i < Len(c) /\ c[i + 1] \in WordCh
        THEN <<BSl, "$">> ELSE <<c[i]>>])
\* re.sub(r'\$', r'\\$', content)
EscapeDollar(c) ==
    Flatten([i \in 1..Len(c) |-> IF c[i] = "$" THEN <<BSl, "$">> ELSE <<c[i]>>])
\* re.sub(r'(?<=[^\\])\\(?![\\"/bfnrt])', r'\\\\', content)
EscapeBackslash(c) ==
    Flatten([i \in 1..Len(c) |->
        IF c[i] = BSl /\ i > 1 /\ c[i - 1] # BSl
           /\ ~(i < Len(c) /\ c[i + 1] \in {BSl, Quote} \cup EscLetterWords)
        THEN <<BSl, BSl>> ELSE <<c[i]>>])

\* replace_in_string: the three replacements, in order
replace_in_string(content) == EscapeBackslash(EscapeDollar(EscapeTicker(content)))

\* string_pattern.sub(replace_in_string, json_str) with string_pattern
\* "([^"]*)": the quotes are paired in order, escaped or not
SanitizeLiterals(json_str) ==
    LET qs == Sorted({i \in 1..Len(json_str) : json_str[i] = Quote})
        np == Len(qs) \div 2
        piece(k) == SubSeq(json_str, IF k = 1 THEN 1 ELSE qs[2 * k - 2] + 1,
                           qs[2 * k - 1])
                        \o replace_in_string(SubSeq(json_str, qs[2 * k - 1] + 1,
                                                    qs[2 * k] - 1))
                        \o <<Quote>>
        tail == SubSeq(json_str, IF np = 0 THEN 1 ELSE qs[2 * np] + 1, Len(json_str))
    IN Flatten([k \in 1..np |-> piece(k)]) \o tail

\* ("[^"]+"\s*:\s*"[^"]*")\s*("[^"]+"\s*:)   ->   \1,\2
PropertyCommaRe ==
    <<Lit(Quote), Plus(NotQuote), Lit(Quote), Star(WS), Lit(":"), Star(WS), Lit(Quote),
      Star(NotQuote), Lit(Quote), Star(WS), Lit(Quote), Plus(NotQuote), Lit(Quote),
      Star(WS), Lit(":")>>

sanitize_json_strings(json_str) ==
    ReSub(PropertyCommaRe, <<RGrp(1, 9), RLit(<<",">>), RGrp(11, 15)>>,
          SanitizeLiterals(json_str))

\* dollar_sign_pattern (\$\w+)(?=[^"]*") with the replacement \\\1
EscapeThaiDollar(t) ==
    Flatten([i \in 1..Len(t) |->
        IF t[i] = "$" /\ i < Len(t) /\ t[i + 1] \in WordCh
           /\ \E j \in (i + 1)..Len(t) : t[j] = Quote
        THEN <<BSl, "$">> ELSE <<t[i]>>])

\* "([^"]+)"\s*:\s*\{([^}]*)$ with re.MULTILINE   (group 2 is element 8)
OpenObjectRe ==
    <<Lit(Quote), Plus(NotQuote), Lit(Quote), Star(WS), Lit(":"), Star(WS), Lit("{"),
      Star(NotClose), EndLine>>

RECURSIVE ThaiOpenEnds(_, _)
\* re.finditer(OpenObjectRe): the end offsets of the matches whose group 2
\* contains Thai text
ThaiOpenEnds(t, p) ==
    LET m == ReSearch(OpenObjectRe, t, p) IN
    IF m = <<>> THEN <<>>
    ELSE (IF contains_thai_text(Group(m, t, 8, 8)) THEN <<MEnd(m) - 1>> ELSE <<>>)
             \o (IF MEnd(m) > Len(t) THEN <<>>
                 ELSE ThaiOpenEnds(t, IF MEnd(m) = MStart(m) THEN MEnd(m) + 1
                                      ELSE MEnd(m)))

RECURSIVE InsertCloses(_, _)
\* json_str[:pos] + "}" + json_str[pos:] for each offset, offsets being
\* those of the text before any insertion.  Offsets count lexemes: a brace
\* that the source puts inside a word is put before the word.
InsertCloses(t, ends) ==
    IF ends = <<>> THEN t
    ELSE LET pos == Min(Head(ends), Len(t))
         IN InsertCloses(SubSeq(t, 1, pos) \o <<"}">> \o SubSeq(t, pos + 1, Len(t)),
                         Tail(ends))

\* ("[^"]+"\s*:\s*"[^"]*")\s*("[^"]+")   ->   \1,\2
ThaiFix3Re ==
    <<Lit(Quote), Plus(NotQuote), Lit(Quote), Star(WS), Lit(":"), Star(WS), Lit(Quote),
      Star(NotQuote), Lit(Quote), Star(WS), Lit(Quote), Plus(NotQuote), Lit(Quote)>>
\* (\})\s*("[^"]+"\s*:)   ->   \1,\2
ThaiFix4Re ==
    <<Lit("}"), Star(WS), Lit(Quote), Plus(NotQuote), Lit(Quote), Star(WS), Lit(":")>>
\* (\})\s*\n\s*("[^"]+")   ->   \1,\n\2
ThaiFix5Re ==
    <<Lit("}"), Star(WS), Lit(NL), Star(WS), Lit(Quote), Plus(NotQuote), Lit(Quote)>>
\* (\})\s*\n\s*([^\s\{\}])   ->   \1,\n\2
ThaiFix6Re ==
    <<Lit("}"), Star(WS), Lit(NL), Star(WS), One(NotCls(WSCh \cup {"{", "}"}))>>
\* ("intro"\s*:\s*\{[^\}]+\})\s*("[^"]+")   ->   \1,\2
ThaiFix7Re ==
    QLit("intro") \o <<Star(WS), Lit(":"), Star(WS), Lit("{"), Plus(NotClose), Lit("}"),
                       Star(WS), Lit(Quote), Plus(NotQuote), Lit(Quote)>>

\* Fix 8 of fix_thai_json, and the same step elsewhere: append the closing
\* braces that str.count finds missing
AppendMissingBraces(t) ==
    IF Count(t, "{") > Count(t, "}")
    THEN t \o Repeat("}", Count(t, "{") - Count(t, "}")) ELSE t

fix_thai_json(json_str) ==
    IF ~contains_thai_text(json_str) THEN json_str
    ELSE LET t0 == EscapeThaiDollar(json_str)
             t2 == InsertCloses(t0, ThaiOpenEnds(t0, 1))
             t3 == ReSub(ThaiFix3Re, <<RGrp(1, 9), RLit(<<",">>), RGrp(11, 13)>>, t2)
             t4 == ReSub(ThaiFix4Re, <<RGrp(1, 1), RLit(<<",">>), RGrp(3, 7)>>, t3)
             t5 == ReSub(ThaiFix5Re, <<RGrp(1, 1), RLit(<<",", NL>>), RGrp(5, 7)>>, t4)
             t6 == ReSub(ThaiFix6Re, <<RGrp(1, 1), RLit(<<",", NL>>), RGrp(5, 5)>>, t5)
             t7 == ReSub(ThaiFix7Re, <<RGrp(1, 9), RLit(<<",">>), RGrp(11, 13)>>, t6)
         IN IF ReFound(IntroMissingCloseRe, t0) THEN t0 \o <<"}", "}", "}">>
            ELSE AppendMissingBraces(t7)

(********************* modules/generation/gemini.py ************************)
\* ("Part 2"\s*:\s*"[^"]*")\s*$   ->   \1}
Part2TailRe ==
    QLit("Part 2") \o <<Star(WS), Lit(":"), Star(WS), Lit(Quote), Star(NotQuote),
                        Lit(Quote), Star(WS), EndA>>
\* "intro"\s*:\s*\{\s*"Part 1"[^{}]*"Part 2"[^{}]*$
OpenIntroRe ==
    QLit("intro") \o <<Star(WS), Lit(":"), Star(WS), Lit("{"), Star(WS)>>
        \o QLit("Part 1") \o <<Star(NotBrace)>> \o QLit("Part 2")
        \o <<Star(NotBrace), EndA>>

\* the check for an incomplete intro object made on an extracted span
GIntroPatch(extracted) ==
    IF Contains(extracted, "intro") /\ Contains(extracted, "Part 1")
       /\ Contains(extracted, "Part 2") /\ ~ReFound(IntroObjRe, extracted)
    THEN ReSub(Part2TailRe, <<RGrp(1, 9), RLit(<<"}">>)>>, extracted)
    ELSE extracted

\* gemini.clean_gemini_response (the tenacity wrapper only acts on an
\* exception, and none is raised for a string)
GClean(text) ==
    LET m1 == ReSearch(FencedObjectRe, text, 1)
        m2 == ReSearch(FirstObjectRe, text, 1)
        t1 == Strip(ReSub(CodeMarkerRe, <<>>, text))
        t2 == ReSub(MissingCommaRe, MissingCommaRepl, t1)
        t3 == IF ReFound(OpenIntroRe, t2) /\ ~EndsWith(t2, "}") THEN Append(t2, "}")
              ELSE t2
        t4 == IF ~StartsWith(t3, "{") THEN <<"{">> \o t3 ELSE t3
        t5 == IF ~EndsWith(t4, "}") THEN Append(t4, "}") ELSE t4
    IN IF m1 # <<>> THEN GIntroPatch(Strip(Group(m1, text, 4, 6)))
       ELSE IF m2 # <<>> THEN GIntroPatch(Strip(Group(m2, text, 1, 3)))
       ELSE AppendMissingBraces(t5)

\* str.lower() of a key
LowerKey(k) == IF k = <<"SEO">> THEN <<"seo">> ELSE k

\* next((item for item in data if isinstance(item, dict)), {})
FirstDict(a) ==
    LET ds == {i \in 1..Len(a) : IsObj(a[i])} IN
    IF ds = {} THEN JObj(<<>>) ELSE a[CHOOSE i \in ds : \A j \in ds : i <= j]

\* the parsed value as a dict: a list gives its first dict, any other
\* value that is not a dict gives {}
AsDict(d) == IF IsArr(d) THEN FirstDict(d.v) ELSE IF IsObj(d) THEN d ELSE JObj(<<>>)

RequiredSeo == <<"slug", "metaTitle", "metaDescription", "excerpt", "imagePrompt",
                 "altText">>

GEmpty(why) == [kind |-> "empty", doc |-> JObj(<<>>), missing |-> why]

\* gemini.validate_article_json: kind "doc" (the data is returned), "empty"
\* ({} is returned: the JSONDecodeError or the ValueError naming the
\* missing field was caught inside), "attr_error" (AttributeError leaves
\* the function: .get on a value that is not a dict)
GValidate(json_str) ==
    LET r == JsonLoads(json_str)
        data == AsDict(r.val)
        seoKeys == {i \in 1..Len(data.v) : LowerKey(data.v[i].k) = <<"seo">>}
        seo_field == data.v[CHOOSE i \in seoKeys : \A j \in seoKeys : i <= j].k
        content == ObjGet(data, <<"content">>)
        seo == ObjGet(data, seo_field)
        badSeo == {i \in 1..Len(RequiredSeo) : ~HasTruthy(seo, <<RequiredSeo[i]>>)}
    IN IF ~r.ok THEN GEmpty("json")
       ELSE IF data.v = <<>> THEN GEmpty("data")
       ELSE IF ~HasTruthy(data, <<"title">>) THEN GEmpty("title")
       ELSE IF ~HasTruthy(data, <<"content">>) THEN GEmpty("content")
       ELSE IF seoKeys = {} THEN GEmpty("seo")
       ELSE IF ~IsObj(content) THEN [kind |-> "attr_error", doc |-> JObj(<<>>),
                                     missing |-> ""]
       ELSE IF ~HasTruthy(content, <<"intro">>) THEN GEmpty("content.intro")
       ELSE IF ~HasTruthy(content, <<"sections">>) THEN GEmpty("content.sections")
       ELSE IF ~HasTruthy(content, <<"conclusion">>) THEN GEmpty("content.conclusion")
       ELSE IF ~IsObj(seo) THEN [kind |-> "attr_error", doc |-> JObj(<<>>),
                                 missing |-> ""]
       ELSE IF badSeo # {}
            THEN GEmpty(RequiredSeo[CHOOSE i \in badSeo : \A j \in badSeo : i <= j])
       ELSE [kind |-> "doc", doc |-> data, missing |-> ""]

\* str.lower().replace(" ", "-") of one lexeme
LowerDash(ch) ==
    CASE ch = SP                 -> "-"
      [] ch = "SEO"              -> "seo"
      [] ch = "Untitled"         -> "untitled"
      [] ch = "Untitled Article" -> "untitled-article"
      [] ch = "Hello world"      -> "hello-world"
      [] ch = "Bitcoin Rally"    -> "bitcoin-rally"
      [] ch = "Price surged"     -> "price-surged"
      [] ch = "Stay tuned"       -> "stay-tuned"
      [] ch = "Part 1"           -> "part-1"
      [] ch = "Part 2"           -> "part-2"
      [] ch = "metaTitle"        -> "metatitle"
      [] ch = "metaDescription"  -> "metadescription"
      [] ch = "imagePrompt"      -> "imageprompt"
      [] ch = "altText"          -> "alttext"
      [] OTHER                   -> ch

\* text.splitlines()[0]
FirstLine(t) ==
    LET nl == {i \in 1..Len(t) : t[i] = NL} IN
    IF nl = {} THEN t ELSE SubSeq(t, 1, (CHOOSE i \in nl : \A j \in nl : i <= j) - 1)

KV(k, val) == [k |-> <<k>>, val |-> val]

\* fallback_json of make_gemini_request
FallbackJson(cleaned_text) ==
    LET title == IF cleaned_text = <<>> THEN <<"Untitled">>
                 ELSE Strip(FirstLine(cleaned_text))
    IN JObj(<<KV("title", JStr(title)),
              KV("content", JObj(<<KV("intro", JStr(cleaned_text)),
                                   KV("sections", JArr(<<>>)),
                                   KV("conclusion", JStr(<<>>))>>)),
              KV("seo", JObj(<<KV("slug", JStr([i \in 1..Len(title) |->
                                                   LowerDash(title[i])])),
                               KV("metaTitle", JStr(title)),
                               KV("metaDescription", JStr(title)),
                               KV("excerpt", JStr(title)),
                               KV("imagePrompt", JStr(<<>>)),
                               KV("altText", JStr(<<>>))>>))>>)

\* the text handed to clean_gemini_response: three closing braces are added
\* when the incomplete-intro pattern matches the response
PreFix(raw_text) ==
    IF ReFound(IntroMissingCloseRe, raw_text) THEN raw_text \o <<"}", "}", "}">>
    ELSE raw_text

\* make_gemini_request, the handling of one non-empty response.text: kind
\* "fallback" or "doc" or "empty" (a value is returned) or "attr_error" (an
\* exception reaches the except clause of the loop)
HandleResponse(raw_text) ==
    LET cleaned_text == Call("GClean", <<PreFix(raw_text)>>)
        v == Call("GValidate", <<cleaned_text>>)
    IN IF ~StartsWith(Strip(cleaned_text), "{")
       THEN [kind |-> "fallback", doc |-> FallbackJson(cleaned_text), missing |-> ""]
       ELSE v

(********* validation.validate_article_json: the stages and the result *******)
\* "\s*\n\s*"   ->   ", "
QuoteNewlineQuoteRe == <<Lit(Quote), Star(WS), Lit(NL), Star(WS), Lit(Quote)>>
\* \}\s*\n\s*\{   ->   }, {
BraceNewlineBraceRe == <<Lit("}"), Star(WS), Lit(NL), Star(WS), Lit("{")>>

\* the general fixes: closing braces by str.count, then the three comma
\* substitutions.  Only the copy in the Thai branch has the else that
\* appends one brace.
GeneralFix(json_str, thai) ==
    LET stripped == Strip(json_str)
        missing  == Count(json_str, "{") - Count(json_str, "}")
        t0 == IF missing > 0 THEN stripped \o Repeat("}", missing)
              ELSE IF thai /\ ~EndsWith(stripped, "}") THEN Append(stripped, "}")
              ELSE stripped
        t1 == ReSub(QuoteNewlineQuoteRe, <<RLit(<<Quote, ",", SP, Quote>>)>>, t0)
        t2 == ReSub(BraceNewlineQuoteRe, <<RLit(<<"}", ",", SP, Quote>>)>>, t1)
    IN ReSub(BraceNewlineBraceRe, <<RLit(<<"}", ",", SP, "{">>)>>, t2)

\* d[k] = val and d.pop(k) on a dict value
ObjSet(d, k, val) == JObj(ObjPut(d.v, <<k>>, val))
ObjDel(d, k) == JObj(SelectSeq(d.v, LAMBDA e : e.k # <<k>>))
\* d.get(k, default)
ObjGetOr(d, k, default) == IF ObjHas(d, <<k>>) THEN ObjGet(d, <<k>>) ELSE default

\* repr of one character of a str
ReprCh(ch) ==
    CASE ch = BSl  -> <<BSl, BSl>>
      [] ch = NL   -> <<BSl, "n">>
      [] ch = Tab  -> <<BSl, "t">>
      [] ch = Ctl1 -> <<BSl, "x01">>
      [] ch = Ctl2 -> <<BSl, "x02">>
      [] OTHER     -> <<ch>>

ReprStr(t) == <<Apos>> \o Flatten([i \in 1..Len(t) |-> ReprCh(t[i])]) \o <<Apos>>

RECURSIVE PyRepr(_), ReprMembers(_), ReprElements(_)
\* repr of a parsed value (no text of the model holds an apostrophe, so a
\* str is always put between apostrophes)
PyRepr(d) ==
    CASE d.t = "str" -> ReprStr(d.v)
      [] d.t = "obj" -> <<"{">> \o ReprMembers(d.v) \o <<"}">>
      [] d.t = "arr" -> <<"[">> \o ReprElements(d.v) \o <<"]">>

ReprMembers(m) ==
    IF m = <<>> THEN <<>>
    ELSE ReprStr(Head(m).k) \o <<":", SP>> \o PyRepr(Head(m).val)
             \o (IF Len(m) > 1 THEN <<",", SP>> \o ReprMembers(Tail(m)) ELSE <<>>)

ReprElements(a) ==
    IF a = <<>> THEN <<>>
    ELSE PyRepr(Head(a))
             \o (IF Len(a) > 1 THEN <<",", SP>> \o ReprElements(Tail(a)) ELSE <<>>)

\* str(value)
PyStr(d) == IF IsStr(d) THEN d.v ELSE PyRepr(d)

\* number of characters of a lexeme
LexLen(ch) ==
    CASE ch \in {"json", "slug"}                                     -> 4
      [] ch \in {"title", "intro", "media"}                          -> 5
      [] ch = Fence                                                  -> 3
      [] ch \in {"itle"}                                             -> 4
      [] ch \in {"SEO", "seo", "x01", "x02"}                         -> 3
      [] ch \in {"u0001", "u0002", "u0e01"}                          -> 5
      [] ch \in {"Part 1", "Part 2", "part-1", "part-2", "images"}   -> 6
      [] ch \in {"content", "excerpt", "altText", "alttext", "heading"} -> 7
      [] ch \in {"sections", "Untitled", "untitled"}                 -> 8
      [] ch \in {"metaTitle", "metatitle"}                           -> 9
      [] ch \in {"conclusion", "Stay tuned", "stay-tuned"}           -> 10
      [] ch \in {"imagePrompt", "imageprompt", "Hello world", "hello-world"} -> 11
      [] ch \in {"Price surged", "price-surged", "introduction"}     -> 12
      [] ch \in {"Bitcoin Rally", "bitcoin-rally"}                   -> 13
      [] ch \in {"twitter_embeds"}                                   -> 14
      [] ch \in {"metaDescription", "metadescription"}               -> 15
      [] ch \in {"Untitled Article", "untitled-article"}             -> 16
      [] OTHER                                                       -> 1

\* len(t) in characters
TextLen(t) == FoldRange(LAMBDA n, i : n + LexLen(t[i]), 0, 1, Len(t))

\* t[:n]: the lexemes that end within the first n characters (a word the
\* slice would cut in two is left out)
Slice(t, n) ==
    LET fit == {k \in 0..Len(t) : TextLen(SubSeq(t, 1, k)) <= n}
    IN SubSeq(t, 1, CHOOSE k \in fit : \A j \in fit : j <= k)

\* re.sub(r'[^\w\s-]', '', title.lower()).replace(' ', '-')
SlugOf(title) ==
    LET kept == SelectSeq(title, LAMBDA ch : ch \in WordCh \cup WSCh)
    IN [i \in 1..Len(kept) |-> LowerDash(kept[i])]

VRaise == [kind |-> "attr_error", doc |-> JObj(<<>>)]
VEmpty == [kind |-> "empty", doc |-> JObj(<<>>)]

\* content['introduction']: a dict under 'intro' is moved there, else a
\* missing or falsy introduction takes the value of 'intro' or ""
WithIntroduction(content) ==
    IF ObjHas(content, <<"intro">>) /\ IsObj(ObjGet(content, <<"intro">>))
    THEN ObjSet(ObjDel(content, "intro"), "introduction", ObjGet(content, <<"intro">>))
    ELSE IF ~HasTruthy(content, <<"introduction">>)
         THEN ObjSet(content, "introduction", ObjGetOr(content, "intro", JStr(<<>>)))
         ELSE content

\* if k not in d: d[k] = val
SetDefault(d, k, val) == IF ObjHas(d, <<k>>) THEN d ELSE ObjSet(d, k, val)

\* the content dict after the introduction, sections and conclusion fixes
FixContent(content) ==
    SetDefault(SetDefault(WithIntroduction(content), "sections", JArr(<<>>)),
               "conclusion", JStr(<<>>))

\* data['seo'] when the key is missing and the title is truthy
DefaultSeo(title, content) ==
    LET intro == Strip(PyStr(ObjGet(content, <<"introduction">>)))
    IN JObj(<<KV("slug", JStr(SlugOf(title))),
              KV("metaTitle", JStr(title)),
              KV("metaDescription", JStr(Slice(intro, 155))),
              KV("excerpt", JStr(Slice(intro, 100))),
              KV("imagePrompt", JStr(<<>>)),
              KV("altText", JStr(title))>>)

DefaultMedia == JObj(<<KV("images", JArr(<<>>)), KV("twitter_embeds", JArr(<<>>))>>)

\* "Ensure media structure exists", and return data
NormalizeMedia(data) == [kind |-> "doc", doc |-> SetDefault(data, "media", DefaultMedia)]

\* "Ensure SEO structure exists": title.lower() raises AttributeError when
\* the title is a non-empty list or dict
NormalizeSeo(data) ==
    LET title == ObjGetOr(data, "title", JStr(<<>>)) IN
    IF ObjHas(data, <<"seo">>) THEN NormalizeMedia(data)
    ELSE IF ~Truthy(title) THEN NormalizeMedia(ObjSet(data, "seo", JObj(<<>>)))
    ELSE IF ~IsStr(title) THEN VRaise
    ELSE NormalizeMedia(ObjSet(data, "seo",
                               DefaultSeo(title.v, ObjGet(data, <<"content">>))))

\* "Validate and auto-fix content structure": content.get raises
\* AttributeError when content is a non-empty str or list
NormalizeContent(data) ==
    IF ~IsObj(ObjGet(data, <<"content">>)) THEN VRaise
    ELSE NormalizeSeo(ObjSet(data, "content", FixContent(ObjGet(data, <<"content">>))))

\* the part of validate_article_json that follows a parse that succeeded
\* inside the except handler: kind "doc" (the data is returned), "empty"
\* ({} is returned), "attr_error" (AttributeError leaves the function, no
\* except clause of the function guards its own handler)
Normalize(parsed) ==
    LET data == AsDict(parsed) IN
    IF data.v = <<>> THEN VEmpty
    ELSE IF ~HasTruthy(data, <<"content">>)
         THEN NormalizeContent(ObjSet(data, "content", JObj(<<>>)))
         ELSE NormalizeContent(data)

\* validation.validate_article_json: kind "none" when the first json.loads
\* succeeds (the try block ends and the function returns nothing), else
\* what the handler of json.JSONDecodeError produces
validate_article_json(json_str) ==
    LET thai  == contains_thai_text(json_str)
        first == Call("sanitize_json_strings", <<json_str>>)
        fixed == Call("sanitize_json_strings", <<Call("fix_thai_json", <<json_str>>)>>)
        general == GeneralFix(json_str, thai)
    IN IF Parses(first) THEN [kind |-> "none", doc |-> JObj(<<>>)]
       ELSE IF thai /\ Parses(fixed) THEN Call("Normalize", <<JsonLoads(fixed).val>>)
       ELSE IF Parses(general) THEN Call("Normalize", <<JsonLoads(general).val>>)
       ELSE VEmpty

\* the stages of validation.validate_article_json up to the json.loads
\* that succeeds, or all of them
ValidateTrace(json_str) ==
    LET thai  == contains_thai_text(json_str)
        first == Call("sanitize_json_strings", <<json_str>>)
        fixed == Call("sanitize_json_strings", <<Call("fix_thai_json", <<json_str>>)>>)
        general == GeneralFix(json_str, thai)
    IN <<Stage("sanitize", first)>>
         \o (IF Parses(first) THEN <<>>
             ELSE (IF thai THEN <<Stage("fix_thai_json", fixed)>> ELSE <<>>)
                    \o (IF thai /\ Parses(fixed) THEN <<>>
                        ELSE <<Stage("general", general)>>))

(******************** modules/generation/article.py ************************)
\* characters of a source text: carriage return and unit separator are
\* whitespace for \s, U+0001 and U+0002 are control characters that are not
CR == "U+000D"
US == "U+001F"
SourceWS == Cls(WSCh \cup {CR, US})
\* ord(char) >= 32 or char in '\n\t'
Printable(ch) == ch \notin {Ctl1, Ctl2, CR, US}

\* article.clean_source_content
clean_source_content(content) ==
    IF content = <<>> THEN <<>>
    ELSE SelectSeq(Strip(ReSub(<<Plus(SourceWS)>>, <<RLit(<<SP>>)>>, content)),
                   LAMBDA ch : Printable(ch))

\* what a step of generate_article gives: the value, or an exception that
\* the except Exception clause of the function turns into {}
AFail   == [ok |-> FALSE, val |-> NoVal]
AOk(v)  == [ok |-> TRUE, val |-> v]

\* what generate_article returns: kind "doc" (content) or "empty" ({});
\* filled tells whether the "Ensure required fields exist" step ran
AResult(kind, doc, filled) == [kind |-> kind, doc |-> doc, filled |-> filled]

\* x in seq, for a list value
ArrHas(a, x) == \E i \in 1..Len(a.v) : a.v[i] = x

\* the body of "for section in ...": 'format' not in section, then the item
\* assignment, which raises TypeError on a str and on a list
EnsureSection(section) ==
    IF IsObj(section)
    THEN AOk(SetDefault(SetDefault(section, "format", JStr(<<"paragraph">>)),
                        "paragraphs", JArr(<<>>)))
    ELSE IF IsArr(section) /\ ArrHas(section, JStr(<<"format">>))
                           /\ ArrHas(section, JStr(<<"paragraphs">>))
    THEN AOk(section)
    ELSE IF IsStr(section) /\ Contains(section.v, "format")
                           /\ Contains(section.v, "paragraphs")
    THEN AOk(section)
    ELSE AFail

\* what the for loop iterates over: the elements of a list, the keys of a
\* dict, the characters of a str (a word lexeme is taken as one item)
SectionItems(sections) ==
    CASE IsArr(sections) -> sections.v
      [] IsObj(sections) -> [i \in 1..Len(sections.v) |-> JStr(sections.v[i].k)]
      [] IsStr(sections) -> [i \in 1..Len(sections.v) |-> JStr(<<sections.v[i]>>)]

\* "Ensure each section has proper format"
EnsureSections(sections) ==
    LET items == SectionItems(sections)
        fixed == [i \in 1..Len(items) |-> EnsureSection(items[i])]
    IN IF \E i \in 1..Len(items) : ~fixed[i].ok THEN AFail
       ELSE IF IsArr(sections) THEN AOk(JArr([i \in 1..Len(items) |-> fixed[i].val]))
       ELSE AOk(sections)

\* f'... {primary_keyword} ...' : the conclusion put in when none is there
DefaultConclusion(primary_keyword) == <<Thai, SP>> \o primary_keyword \o <<SP, Thai>>

\* content.get('content', {}).get('intro', {}).get('Part 1', default):
\* .get on an intro that is not a dict raises AttributeError
MetaDescription(inner, primary_keyword) ==
    LET intro == ObjGetOr(inner, "intro", JObj(<<>>))
    IN IF ~IsObj(intro) THEN AFail
       ELSE AOk(ObjGetOr(intro, "Part 1",
                         JStr(<<"Latest news and updates about", SP>> \o primary_keyword)))

\* the seo dict put in when no key of the document lowercases to 'seo'
ArticleSeo(description, primary_keyword) ==
    JObj(<<KV("slug", JStr([i \in 1..Len(primary_keyword) |->
                               LowerDash(primary_keyword[i])])),
           KV("metaTitle", JStr(<<"Latest Updates on", SP>> \o primary_keyword)),
           KV("metaDescription", description),
           KV("excerpt", JStr(<<"Stay updated with the latest", SP>> \o primary_keyword
                                  \o <<SP, "developments">>)),
           KV("imagePrompt", JStr(<<"A photorealistic scene showing", SP>>
                                      \o primary_keyword
                                      \o <<SP, "in a professional setting">>)),
           KV("altText", JStr(primary_keyword
                                  \o <<SP, "latest updates and developments">>))>>)

\* "Ensure SEO fields exist"
EnsureSeo(content, primary_keyword) ==
    LET md == MetaDescription(ObjGet(content, <<"content">>), primary_keyword)
    IN IF \E i \in 1..Len(content.v) : LowerKey(content.v[i].k) = <<"seo">>
       THEN AOk(content)
       ELSE IF ~md.ok THEN AFail
       ELSE AOk(ObjSet(content, "seo", ArticleSeo(md.val, primary_keyword)))

\* content['content'] after the sections and conclusion steps
EnsureInner(inner, primary_keyword) ==
    LET withSections == SetDefault(inner, "sections", JArr(<<>>))
        secs == EnsureSections(ObjGet(withSections, <<"sections">>))
    IN IF ~secs.ok THEN AFail
       ELSE AOk(SetDefault(ObjSet(withSections, "sections", secs.val), "conclusion",
                           JStr(DefaultConclusion(primary_keyword))))

\* "Ensure required fields exist" on a dict: 'sections' not in
\* content['content'] followed by the item assignment or by .get raises
\* on a content that is not a dict
EnsureDict(content, primary_keyword) ==
    LET c1 == SetDefault(SetDefault(content, "title",
                                    JStr(<<"Latest News about", SP>> \o primary_keyword)),
                         "content", JObj(<<>>))
        inner == IF IsObj(ObjGet(c1, <<"content">>))
                 THEN EnsureInner(ObjGet(c1, <<"content">>), primary_keyword)
                 ELSE AFail
    IN IF ~inner.ok THEN AFail
       ELSE EnsureSeo(ObjSet(c1, "content", inner.val), primary_keyword)

\* content = content[0] if content else {}
FirstOfList(content) ==
    IF ~IsArr(content) THEN content
    ELSE IF content.v = <<>> THEN JObj(<<>>) ELSE content.v[1]

\* generate_article from "if isinstance(content, list)" to the SEO fields:
\* the document with its defaults; {} for a value that is not a dict and
\* for an exception
EnsureRequiredFields(parsed, primary_keyword) ==
    LET content == FirstOfList(parsed)
        filled  == EnsureDict(content, primary_keyword)
    IN IF ~IsObj(content) THEN AOk(JObj(<<>>))
       ELSE filled

\* image.generate_images_for_article: the media structure, and the image
\* when seo.imagePrompt is truthy and the image service answered
GeneratedImage == JObj(<<KV("url", JStr(<<"x">>))>>)
WithImage(data, media, generated) ==
    LET seo    == ObjGetOr(data, "seo", JObj(<<>>))
        images == ObjGet(media, <<"images">>)
    IN IF IsObj(seo) /\ HasTruthy(seo, <<"imagePrompt">>) /\ generated /\ IsArr(images)
       THEN ObjSet(data, "media", ObjSet(media, "images",
                                         JArr(Append(images.v, GeneratedImage))))
       ELSE ObjSet(data, "media", media)
generate_images_for_article(article_data, generated) ==
    LET media == ObjGetOr(article_data, "media", JObj(<<>>))
    IN IF article_data.v = <<>> THEN article_data
       ELSE IF ~IsObj(media) THEN article_data
       ELSE WithImage(article_data, SetDefault(media, "images", JArr(<<>>)), generated)

\* the tail of generate_article, reached when the sanitized text did not
\* parse and the response itself did
FillAndReturn(parsed, primary_keyword, generated) ==
    LET e == EnsureRequiredFields(parsed, primary_keyword)
    IN IF ~e.ok \/ e.val.v = <<>> THEN AResult("empty", JObj(<<>>), TRUE)
       ELSE AResult("doc", generate_images_for_article(e.val, generated), TRUE)

\* generate_article after make_gemini_request returned response (a dict),
\* with promotional_text None.  json.dumps gives text that json.loads
\* accepts, so the repairs of the except branch (lines 164-296) never run.
ParseResponse(text, primary_keyword, generated) ==
    LET thaiFixed == Call("fix_thai_json", <<text>>)
        closed    == text \o <<"}", "}", "}">>
        sanitized == Call("sanitize_json_strings", <<text>>)
    IN IF contains_thai_text(text) /\ Parses(thaiFixed)
       THEN AResult("doc", JsonLoads(thaiFixed).val, FALSE)
       ELSE IF ReFound(IntroMissingCloseRe, text) /\ Parses(closed)
       THEN AResult("doc", JsonLoads(closed).val, FALSE)
       ELSE IF Parses(sanitized)
       THEN AResult("doc", JsonLoads(sanitized).val, FALSE)
       ELSE IF Parses(text)
       THEN FillAndReturn(JsonLoads(text).val, primary_keyword, generated)
       ELSE AResult("repair", JObj(<<>>), FALSE)

generate_article(response, primary_keyword, generated) ==
    IF ~Truthy(response) THEN AResult("empty", JObj(<<>>), FALSE)
    ELSE Call("ParseResponse", <<JsonDumps(response), primary_keyword, generated>>)

(**************** modules/utils/text_utils.py and app.py ********************)
\* One part of the rendered article: the section it belongs to (0 outside
\* the sections) and its value, a str for everything the code passes
\* through str() or an f-string and the raw value otherwise.
Part(sec, val) == [sec |-> sec, val |-> val]
Text(sec, t)   == Part(sec, JStr(t))
Placeholder == "*Content for this section is being processed.*"
NoTable     == "*Could not display table content*"

RECURSIVE JoinWith(_, _)
\* sep.join(parts)
JoinWith(parts, sep) ==
    IF parts = <<>> THEN <<>>
    ELSE IF Len(parts) = 1 THEN parts[1]
    ELSE parts[1] \o sep \o JoinWith(Tail(parts), sep)

\* '| ' + ' | '.join(cells) + ' |'
TableRow(cells) == <<"|", SP>> \o JoinWith(cells, <<SP, "|", SP>>) \o <<SP, "|">>

\* paragraphs = section.get('paragraphs', []), made a list when it is none
ParagraphList(section) ==
    LET paragraphs == ObjGetOr(section, "paragraphs", JArr(<<>>))
    IN IF IsArr(paragraphs) THEN paragraphs.v ELSE <<JStr(PyStr(paragraphs))>>

\* parse_article, format 'table': rows that start with '|' are taken as
\* they are; a list or a dict as first item gives a header, a rule and rows
ParseTable(i, paragraphs) ==
    LET first == paragraphs[1]
        headers == IF IsArr(first) THEN [j \in 1..Len(first.v) |-> PyStr(first.v[j])]
                   ELSE [j \in 1..Len(first.v) |-> first.v[j].k]
        rule == TableRow([j \in 1..Len(headers) |-> <<"---">>])
        listRows == SelectSeq(Tail(paragraphs), LAMBDA row : IsArr(row))
        dictRows == SelectSeq(paragraphs, LAMBDA row : IsObj(row))
    IN IF IsStr(first)
       THEN IF StartsWith(first.v, "|")
            THEN [j \in 1..Len(paragraphs) |-> Part(i, paragraphs[j])]
            ELSE <<>>
       ELSE IF IsArr(first)
       THEN <<Text(i, TableRow(headers)), Text(i, rule)>>
              \o [j \in 1..Len(listRows) |->
                     Text(i, TableRow([c \in 1..Len(listRows[j].v) |->
                                          PyStr(listRows[j].v[c])]))]
       ELSE <<Text(i, TableRow(headers)), Text(i, rule)>>
              \o [j \in 1..Len(dictRows) |->
                     Text(i, TableRow([c \in 1..Len(headers) |->
                                          PyStr(ObjGetOr(dictRows[j], headers[c][1],
                                                         JStr(<<>>)))]))]

\* parse_article, the parts of the format of a section with paragraphs
ParseFormat(i, format_type, paragraphs) ==
    (IF format_type = JStr(<<"list">>)
     THEN [j \in 1..Len(paragraphs) |-> Text(i, <<"*", SP>> \o PyStr(paragraphs[j]))]
     ELSE IF format_type = JStr(<<"table">>) THEN ParseTable(i, paragraphs)
     ELSE [j \in 1..Len(paragraphs) |-> Text(i, PyStr(paragraphs[j]))])
        \o <<Text(i, <<>>)>>

\* parse_article, one turn of "for section in sections"
ParseSection(i, section) ==
    IF ~IsObj(section) THEN <<>>
    ELSE <<Text(i, <<"##", SP>> \o PyStr(ObjGetOr(section, "heading",
                                                   JStr(<<"Section Heading">>))))>>
           \o (IF ParagraphList(section) = <<>>
               THEN <<Text(i, <<Placeholder>>), Text(i, <<>>)>>
               ELSE ParseFormat(i, ObjGetOr(section, "format", JStr(<<"paragraph">>)),
                                ParagraphList(section)))

\* the parts of the intro: the two parts of a dict as they are, else str(intro)
ParseIntro(content) ==
    LET intro == ObjGetOr(content, "intro", JStr(<<>>))
    IN IF IsObj(intro)
       THEN <<Part(0, ObjGetOr(intro, "Part 1", JStr(<<"Introduction Part 1">>))),
              Part(0, ObjGetOr(intro, "Part 2", JStr(<<"Introduction Part 2">>)))>>
       ELSE <<Text(0, PyStr(intro))>>

AffiliateNote == "[su_note]"

\* content_parts of parse_article for a content that is a dict
ContentParts(content, add_affiliate_note) ==
    LET secs == ObjGetOr(content, "sections", JArr(<<>>))
        sections == IF IsArr(secs) THEN secs.v ELSE <<>>
    IN ParseIntro(content)
         \o Flatten([i \in 1..Len(sections) |-> ParseSection(i, sections[i])])
         \o <<Text(0, PyStr(ObjGetOr(content, "conclusion",
                                     JStr(<<"Article conclusion.">>))))>>
         \o (IF add_affiliate_note THEN <<Text(0, <<AffiliateNote>>)>> ELSE <<>>)

\* the SEO fields of the result of parse_article
ParsedFields(article) ==
    LET title == ObjGetOr(article, "title", JStr(<<"Untitled Article">>))
        seo   == ObjGetOr(article, "seo", JObj(<<>>))
        seo_data == IF IsObj(seo) THEN seo ELSE JObj(<<>>)
    IN JObj(<<KV("main_title", title),
              KV("yoast_title", ObjGetOr(seo_data, "metaTitle", title)),
              KV("yoast_metadesc", ObjGetOr(seo_data, "metaDescription", JStr(<<>>))),
              KV("seo_slug", ObjGetOr(seo_data, "slug", JStr(<<>>))),
              KV("excerpt", ObjGetOr(seo_data, "excerpt", JStr(<<>>))),
              KV("image_prompt", ObjGetOr(seo_data, "imagePrompt", JStr(<<>>))),
              KV("image_alt", ObjGetOr(seo_data, "altText", JStr(<<>>)))>>)

\* what parse_article and the preview give: kind "parsed" / "rendered", or
\* the exception that ends the function, with the parts made so far
Rendering(kind, parts, doc) == [kind |-> kind, parts |-> parts, doc |-> doc]

\* text_utils.parse_article on a parsed article: ValueError for an article
\* or a content that is no dict, TypeError when "\n\n".join meets a part
\* that is no str
parse_article(article, add_affiliate_note) ==
    LET parts == ContentParts(ObjGet(article, <<"content">>), add_affiliate_note)
    IN IF ~IsObj(article) \/ ~ObjHas(article, <<"content">>)
          \/ ~IsObj(ObjGet(article, <<"content">>))
       THEN Rendering("ValueError", <<>>, JObj(<<>>))
       ELSE IF \E j \in 1..Len(parts) : ~IsStr(parts[j].val)
       THEN Rendering("TypeError", parts, JObj(<<>>))
       ELSE Rendering("parsed", parts, ParsedFields(article))

\* the preview, 'list' and paragraph format: an empty item is skipped
RenderItems(i, prefix, paragraphs) ==
    Flatten([j \in 1..Len(paragraphs) |->
                IF ~Truthy(paragraphs[j]) THEN <<>>
                ELSE <<Text(i, prefix \o PyStr(paragraphs[j])), Text(i, <<>>)>>])

\* pandas makes a DataFrame of the rows under a list of columns when each
\* row is a list of that many cells, and of a list of dicts
FramedRows(first, paragraphs) ==
    IF IsArr(first)
    THEN \A j \in 2..Len(paragraphs) :
            IsArr(paragraphs[j]) /\ Len(paragraphs[j].v) = Len(first.v)
    ELSE \A j \in 1..Len(paragraphs) : IsObj(paragraphs[j])

\* the preview, format 'table': rows that start with '|'; for another str
\* no DataFrame is made and the except clause reports it, as it does when
\* pandas refuses the rows; a DataFrame goes to st.table, which is no
\* markdown part
RenderTable(i, paragraphs) ==
    LET first == paragraphs[1]
        rows == SelectSeq(paragraphs, LAMBDA row : Truthy(row))
    IN (IF IsStr(first) /\ StartsWith(first.v, "|")
        THEN [j \in 1..Len(rows) |-> Text(i, PyStr(rows[j]))]
        ELSE IF IsStr(first) \/ ~FramedRows(first, paragraphs)
        THEN <<Text(i, <<NoTable>>)>>
        ELSE <<>>)
         \o <<Text(i, <<>>)>>

\* the preview of a section with paragraphs
RenderFormat(i, format_type, paragraphs) ==
    IF format_type = JStr(<<"list">>) THEN RenderItems(i, <<"*", SP>>, paragraphs)
    ELSE IF format_type = JStr(<<"table">>) THEN RenderTable(i, paragraphs)
    ELSE RenderItems(i, <<>>, paragraphs)

\* the preview of a section without paragraphs: its 'content' when it has
\* one, else the placeholder
RenderEmpty(i, section) ==
    IF HasTruthy(section, <<"content">>)
    THEN <<Text(i, PyStr(ObjGet(section, <<"content">>))), Text(i, <<>>)>>
    ELSE <<Text(i, <<Placeholder>>), Text(i, <<>>)>>

\* render_article_preview, one turn of "for i, section in enumerate(sections)"
\* (i counts from 1 here; the documents of the model place no image and no
\* tweet in a section)
RenderSection(i, section) ==
    IF ~IsObj(section) THEN <<>>
    ELSE <<Text(i, <<"##", SP>> \o PyStr(ObjGetOr(section, "heading",
                                                   JStr(<<"Section", SP, ToString(i)>>)))),
           Text(i, <<>>)>>
           \o (IF ParagraphList(section) = <<>> THEN RenderEmpty(i, section)
               ELSE RenderFormat(i, ObjGetOr(section, "format", JStr(<<"paragraph">>)),
                                 ParagraphList(section)))

\* the markdown parts of the title and the intro
RenderHead(article, content) ==
    LET intro == ObjGetOr(content, "intro", JStr(<<>>))
    IN <<Text(0, <<"#", SP>> \o PyStr(ObjGetOr(article, "title",
                                               JStr(<<"Untitled Article">>)))),
         Text(0, <<>>)>>
         \o (IF IsObj(intro)
             THEN <<Part(0, ObjGetOr(intro, "Part 1", JStr(<<"Introduction Part 1">>))),
                    Text(0, <<>>),
                    Part(0, ObjGetOr(intro, "Part 2", JStr(<<"Introduction Part 2">>)))>>
             ELSE <<Text(0, PyStr(intro))>>)
         \o <<Text(0, <<>>)>>

\* "Display promotional content before conclusion": the images of the
\* model have no placement, so all of them remain
RenderRemaining(article) ==
    LET media  == ObjGetOr(article, "media", JObj(<<>>))
        images == ObjGetOr(media, "images", JArr(<<>>))
    IN IF images.v = <<>> THEN <<>>
       ELSE <<Text(0, <<"##", SP, "Promotional Content">>), Text(0, <<>>)>>
              \o Flatten([j \in 1..Len(images.v) |->
                             IF HasTruthy(images.v[j], <<"url">>) THEN <<Text(0, <<>>)>>
                             ELSE <<>>])

\* the media the preview is modelled for: none, or a dict whose images are
\* a list of dicts without placement and that has no twitter_embeds
PlainMedia(article) ==
    \/ ~ObjHas(article, <<"media">>)
    \/ LET media == ObjGet(article, <<"media">>) IN
       /\ IsObj(media) /\ ~ObjHas(media, <<"twitter_embeds">>)
       /\ IsArr(ObjGetOr(media, "images", JArr(<<>>)))
       /\ \A j \in 1..Len(ObjGetOr(media, "images", JArr(<<>>)).v) :
             LET img == ObjGetOr(media, "images", JArr(<<>>)).v[j]
             IN IsObj(img) /\ ~ObjHas(img, <<"placement">>)

\* the parts of the preview up to the conclusion, for a dict content
RenderBody(article, content) ==
    LET secs == ObjGetOr(content, "sections", JArr(<<>>))
        sections == IF IsArr(secs) THEN secs.v ELSE <<>>
    IN RenderHead(article, content)
         \o Flatten([i \in 1..Len(sections) |-> RenderSection(i, sections[i])])
         \o RenderRemaining(article)
         \o <<Text(0, <<"##", SP, Thai, ":">>)>>

\* app.render_article_preview: every exception is caught and reported, the
\* parts shown before it stay on the page
render_article_preview(article_json) ==
    LET content == ObjGetOr(article_json, "content", JObj(<<>>))
    IN IF ~IsObj(article_json) THEN Rendering("error", <<>>, JObj(<<>>))
       ELSE IF ~PlainMedia(article_json) THEN Rendering("unmodelled", <<>>, JObj(<<>>))
       ELSE IF ~IsObj(content)
       THEN Rendering("error",
                      <<Text(0, <<"#", SP>> \o PyStr(ObjGetOr(article_json, "title",
                                                     JStr(<<"Untitled Article">>)))),
                        Text(0, <<>>)>>, JObj(<<>>))
       ELSE IF ~ObjHas(article_json, <<"content">>) \/ ~ObjHas(content, <<"conclusion">>)
       THEN Rendering("error", RenderBody(article_json, content), JObj(<<>>))
       ELSE Rendering("rendered",
                      Append(RenderBody(article_json, content),
                             Part(0, ObjGet(content, <<"conclusion">>))),
                      JObj(<<>>))

(******************* article.py: combine_articles **************************)
\* An article object in memory: obj is its value, alias tells whether it
\* is the object the caller passed as primary_article (a change made
\* through an alias changes the caller's object).
\* combined = primary_article: no copy, the caller's object itself
SameObject(primary_article) == [obj |-> primary_article, alias |-> TRUE]
\* combined = json.loads(json.dumps(primary_article))
DeepCopy(primary_article) ==
    [obj |-> JsonLoads(JsonDumps(primary_article)).val, alias |-> FALSE]

\* section.get('heading'): None (NoVal) without the key
HeadingOf(section) == ObjGetOr(section, "heading", NoVal)

\* one turn of "for section in article['content']['sections']"
AddSection(st, section, sections_to_add) ==
    IF st.added >= sections_to_add THEN st
    ELSE IF \E i \in 1..Len(st.sections) : HeadingOf(st.sections[i]) = HeadingOf(section)
    THEN st
    ELSE [sections |-> Append(st.sections, section), added |-> st.added + 1]

\* the articles of which the first loop takes sections
HasSections(article) ==
    /\ IsObj(article) /\ Truthy(article)
    /\ ObjHas(article, <<"content">>)
    /\ ObjHas(ObjGet(article, <<"content">>), <<"sections">>)
SectionsToOffer(supplementary_articles) ==
    Flatten([i \in 1..Len(supplementary_articles) |->
                IF HasSections(supplementary_articles[i])
                THEN ObjGet(ObjGet(supplementary_articles[i], <<"content">>),
                            <<"sections">>).v
                ELSE <<>>])

\* "Add sections from supplementary articles up to max_sections"
AddSections(primary_sections, supplementary_articles, sections_to_add) ==
    FoldRange(LAMBDA st, i : AddSection(st, SectionsToOffer(supplementary_articles)[i],
                                        sections_to_add),
              [sections |-> primary_sections, added |-> 0],
              1, Len(SectionsToOffer(supplementary_articles))).sections

\* one turn of "for img in article['media'][key]": entries with a url
\* that is already there are left out
MergeEntry(entries, entry) ==
    IF \E i \in 1..Len(entries) : ObjGetOr(entries[i], "url", NoVal) = ObjGetOr(entry, "url", NoVal)
    THEN entries ELSE Append(entries, entry)

\* "Merge images" / "Merge twitter embeds" of one article into the media dict
MergeKey(media, article_media, key) ==
    IF ~ObjHas(article_media, <<key>>) THEN media
    ELSE ObjSet(media, key,
                JArr(FoldRange(LAMBDA es, i : MergeEntry(es, ObjGet(article_media, <<key>>).v[i]),
                               ObjGetOr(media, key, JArr(<<>>)).v,
                               1, Len(ObjGet(article_media, <<key>>).v))))

\* one turn of "for article in supplementary_articles" of the media loop
MergeMedia(combined, article) ==
    IF ~ObjHas(article, <<"media">>) THEN combined
    ELSE ObjSet(combined, "media",
                MergeKey(MergeKey(ObjGetOr(combined, "media", JObj(<<>>)),
                                  ObjGet(article, <<"media">>), "images"),
                         ObjGet(article, <<"media">>), "twitter_embeds"))

\* what combine_articles gives: the value returned, the value the caller's
\* primary object has afterwards, and whether the two are one object
Combined(result, primary, same) == [result |-> result, primary |-> primary, same |-> same]

\* combined['content']['sections'], created when missing
WithSections(combined) ==
    ObjSet(combined, "content",
           SetDefault(ObjGetOr(combined, "content", JObj(<<>>)), "sections", JArr(<<>>)))
SectionsIn(article) == ObjGet(ObjGet(article, <<"content">>), <<"sections">>).v
PutSections(combined, sections) ==
    ObjSet(combined, "content", ObjSet(ObjGet(combined, <<"content">>), "sections",
                                       JArr(sections)))

\* the function from "Get or create necessary structures" on; c is the
\* combined object
CombineInto(c, primary_article, supplementary_articles, max_sections) ==
    LET combined == WithSections(c.obj)
        sections_to_add == max_sections - Len(SectionsIn(combined))
        merged == FoldRange(LAMBDA acc, i : MergeMedia(acc, supplementary_articles[i]),
                            PutSections(combined,
                                        AddSections(SectionsIn(combined),
                                                    supplementary_articles, sections_to_add)),
                            1, Len(supplementary_articles))
        final == IF sections_to_add <= 0 THEN combined ELSE merged
    IN Combined(final, IF c.alias THEN final ELSE primary_article, c.alias)

\* the articles are dicts; a supplementary list is a list of dicts
combine_articles(primary_article, supplementary_articles, max_sections) ==
    IF ~Truthy(primary_article) \/ supplementary_articles = <<>>
    THEN Combined(primary_article, primary_article, TRUE)
    ELSE CombineInto(DeepCopy(primary_article), primary_article, supplementary_articles,
                     max_sections)

(************************ app.py: one browser session ***********************)
\* json.dumps(..., ensure_ascii=False, indent=2): Thai text is written as it
\* is, every member starts a line indented by two spaces per level
EncodeRaw(t) ==
    Flatten([i \in 1..Len(t) |-> IF t[i] = Thai THEN <<Thai>> ELSE EncodeCh(t[i])])
Break(lvl) == <<NL>> \o Repeat(SP, 2 * lvl)

RECURSIVE PrettyDumps(_, _)
PrettyDumps(d, lvl) ==
    CASE d.t = "str" -> <<Quote>> \o EncodeRaw(d.v) \o <<Quote>>
      [] d.v = <<>>  -> IF d.t = "obj" THEN <<"{", "}">> ELSE <<"[", "]">>
      [] d.t = "obj" ->
             <<"{">> \o Flatten([i \in 1..Len(d.v) |->
                                   (IF i > 1 THEN <<",">> ELSE <<>>) \o Break(lvl + 1)
                                     \o <<Quote>> \o EncodeRaw(d.v[i].k) \o <<Quote, ":", SP>>
                                     \o PrettyDumps(d.v[i].val, lvl + 1)])
                     \o Break(lvl) \o <<"}">>
      [] d.t = "arr" ->
             <<"[">> \o Flatten([i \in 1..Len(d.v) |->
                                   (IF i > 1 THEN <<",">> ELSE <<>>) \o Break(lvl + 1)
                                     \o PrettyDumps(d.v[i], lvl + 1)])
                     \o Break(lvl) \o <<"]">>

\* st.session_state: article is the cached JSON text (<<>>: no such key),
\* article_data the dict of the same name (has: the key exists; processed
\* and image are NoVal while the dict lacks them), pending_edit_url the id
\* of the post to edit (<<>>: no such key)
NewSession ==
    [article |-> <<>>,
     article_data |-> [has |-> FALSE, processed |-> NoVal, image |-> NoVal],
     pending_edit_url |-> <<>>]
\* what the session does to the outside: the URLs webbrowser.open was given,
\* the requests sent to the posts endpoint, the media uploaded and the posts
\* created so far, and the last document generate_article returned
NewWorld ==
    [opened |-> <<>>, requests |-> <<>>, media |-> 0, posts |-> 0, generated |-> NoVal]
\* what one run of main() did
NoRun ==
    [button |-> "none", ended |-> "", generated |-> FALSE, cached |-> NoVal,
     preview |-> "", media_info |-> 0, answer |-> [status |-> 0, json |-> FALSE],
     result |-> NoVal, recorded |-> <<>>]
AppState(session, world, run) == [session |-> session, world |-> world, run |-> run]

\* handle_browser_redirect
handle_browser_redirect(st) ==
    IF st.session.pending_edit_url = <<>> THEN st
    ELSE [st EXCEPT !.world.opened = Append(@, st.session.pending_edit_url),
                    !.session.pending_edit_url = <<>>]

\* a cache that forgets the last document when a generation fails
CachedOrCleared(article, article_content) ==
    IF Truthy(article_content) THEN PrettyDumps(article_content, 0) ELSE <<>>

\* the value st.session_state.article has after "if article_content: ...":
\* the text of the new document, the old text when there is none
Cached(article, article_content) ==
    IF Truthy(article_content) THEN PrettyDumps(article_content, 0) ELSE article

\* "if generate_button:" with what generate_article returned (NoVal: None,
\* or no transcripts and the return before the call)
GenerateClicked(st, article_content) ==
    [st EXCEPT !.session.article = Cached(st.session.article, article_content),
               !.world.generated = IF Truthy(article_content) THEN article_content ELSE @,
               !.run.generated = Truthy(article_content),
               !.run.cached = IF Truthy(article_content) THEN article_content ELSE NoVal,
               !.run.ended = IF Truthy(article_content) THEN "" ELSE "generation failed"]

\* the response of the CMS to a request: the status code and whether the
\* body is JSON; status 0 stands for an exception raised by requests.post
CmsAnswer(status, json) == [status |-> status, json |-> json]
\* a client that takes every answer below 500 as success
CreatedLoose(r) == r.status \in {200, 201, 404} /\ r.json
\* "if response.status_code in (200, 201)" and response.json() that works
Created(r) == r.status \in {200, 201} /\ r.json

\* submit_article_to_wordpress: the data posted, the value returned (NoVal:
\* None) and the pending_edit_url it records (<<>>: none); id is the id the
\* CMS gives the post
submit_article_to_wordpress(article, r, id) ==
    [data |-> [title |-> ObjGetOr(article.fields, "main_title", JStr(<<"Untitled">>)),
               status |-> "draft",
               featured_media |-> IF article.image # NoVal THEN article.image.media_id
                                  ELSE 0],
     sent |-> TRUE,
     result |-> IF Created(r) THEN JObj(<<KV("id", JStr(<<ToString(id)>>))>>) ELSE NoVal,
     pending_edit_url |-> IF Created(r) THEN <<id>> ELSE <<>>]

\* upload_image_to_wordpress: the media id, 0 for None
upload_image_to_wordpress(ok, world) == IF ok THEN world.media + 1 ELSE 0

\* article_data["image"] after "if media_info and 'media_id' in media_info":
\* the dict is the one the session holds, the assignment changes it there
ImageAfterUpload(image, media_info) ==
    IF image # NoVal /\ media_info # 0 THEN [image EXCEPT !.media_id = media_info]
    ELSE image

\* the rest of "if upload_button:" once the image was dealt with
Submitted(st, media_info, image, sub) ==
    [st EXCEPT !.session.article_data.image = image,
               !.session.pending_edit_url =
                   IF sub.pending_edit_url # <<>> THEN sub.pending_edit_url ELSE @,
               !.world.media = IF media_info # 0 THEN media_info ELSE @,
               !.world.posts = IF sub.pending_edit_url # <<>> THEN @ + 1 ELSE @,
               !.world.requests =
                   Append(@, [data |-> sub.data, article |-> st.session.article,
                              parsed |-> st.session.article_data.processed,
                              media_info |-> media_info]),
               !.run.media_info = media_info,
               !.run.result = sub.result,
               !.run.recorded = sub.pending_edit_url]

\* "if upload_button:" (the credentials of the site are set)
UploadWith(st, in, media_info) ==
    Submitted(st, media_info,
              ImageAfterUpload(st.session.article_data.image, media_info),
              submit_article_to_wordpress(
                  [fields |-> st.session.article_data.processed.doc,
                   image |-> ImageAfterUpload(st.session.article_data.image, media_info)],
                  in.answer, st.world.posts + 1))

UploadClicked(st, in) ==
    UploadWith(st, in,
               IF st.session.article_data.image # NoVal
                  /\ st.session.article_data.image.b64_data
               THEN upload_image_to_wordpress(in.media, st.world) ELSE 0)

\* "Display edit link if available": shown and deleted in the same run
ShowEditLink(st) ==
    IF st.session.pending_edit_url = <<>> THEN st
    ELSE [st EXCEPT !.session.pending_edit_url = <<>>]

\* "Generate image if not already done", parsed being parse_article of
\* the cached text
WithGeneratedImage(st, in, parsed) ==
    IF st.run.ended # "" \/ st.session.article_data.image # NoVal THEN st
    ELSE IF parsed.kind # "parsed" THEN [st EXCEPT !.run.ended = parsed.kind]
    ELSE IF Truthy(ObjGet(parsed.doc, <<"image_prompt">>)) /\ in.image
    THEN [st EXCEPT !.session.article_data.image =
                        [b64_data |-> TRUE,
                         alt_text |-> ObjGet(parsed.doc, <<"image_alt">>),
                         media_id |-> 0]]
    ELSE st

\* "Parse article for WordPress": only when the dict has no processed article
WithProcessed(st, parsed) ==
    IF st.session.article_data.processed # NoVal
    THEN [st EXCEPT !.session.article_data.has = TRUE]
    ELSE IF parsed.kind # "parsed"
    THEN [st EXCEPT !.session.article_data.has = TRUE, !.run.ended = parsed.kind]
    ELSE [st EXCEPT !.session.article_data.has = TRUE,
                    !.session.article_data.processed = parsed]

\* the buttons of the article area, then the edit link
ArticleButtons(st, in) ==
    IF st.run.ended # "" THEN st
    ELSE IF in.button = "upload"
    THEN ShowEditLink(UploadClicked([st EXCEPT !.run.answer = in.answer], in))
    ELSE ShowEditLink(st)

\* "Display generated article if available", article_json being json.loads
\* of the cached text
ArticleArea(st, in, article_json) ==
    IF ~article_json.ok THEN [st EXCEPT !.run.ended = "JSONDecodeError"]
    ELSE ArticleButtons(
             WithGeneratedImage(
                 WithProcessed([st EXCEPT !.run.preview =
                                    render_article_preview(article_json.val).kind],
                               parse_article(article_json.val, FALSE)),
                 in, parse_article(article_json.val, FALSE)),
             in)

AfterGenerate(st, in) ==
    IF st.run.ended # "" \/ st.session.article = <<>> THEN st
    ELSE ArticleArea(st, in, json_loads(st.session.article))

\* one run of main(): in.button is the button pressed, in.gen what
\* generate_article returns, in.image whether the image service answers,
\* in.media whether the media upload succeeds, in.answer the answer of
\* the CMS to the post
main(session, world, in) ==
    AfterGenerate(
        IF in.button = "generate"
        THEN GenerateClicked(
                 handle_browser_redirect(
                     AppState(session, world, [NoRun EXCEPT !.button = in.button])),
                 in.gen)
        ELSE handle_browser_redirect(
                 AppState(session, world, [NoRun EXCEPT !.button = in.button])),
        in)

\* what json.loads makes of a produced text
LoadedOf(r) ==
    [kind |-> IF r.ok THEN "parsed" ELSE "unparseable", doc |-> r.val, missing |-> ""]
Loaded(text) == LoadedOf(Call("json_loads", <<text>>))

\* a run of the stages tr: the stages, the last text and its parse
OutcomeOf(tr) ==
    [trace |-> tr, text |-> tr[Len(tr)].text, result |-> Loaded(tr[Len(tr)].text)]

\* the run of function f on text: f gives its stages, or the text of its
\* one stage
Outcome(f, stage, text) ==
    IF stage = "" THEN OutcomeOf(Call(f, <<text>>))
    ELSE OutcomeOf(<<Stage(stage, Call(f, <<text>>))>>)

\* the run of validation.validate_article_json: its stages and its return
ValidateOutcomeOf(tr, r) ==
    [trace |-> tr, text |-> tr[Len(tr)].text,
     result |-> [r EXCEPT !.kind = @] @@ [missing |-> ""]]
ValidateOutcome(text) ==
    ValidateOutcomeOf(Call("ValidateTrace", <<text>>),
                      Call("validate_article_json", <<text>>))

\* application of a function by name; the arguments are evaluated before
\* the call, as Python evaluates them (the test a = a computes the tuple)
Call(f, a) ==
    IF a # a THEN a ELSE
    CASE f = "re_search"     -> re_search(a[1], a[2], a[3])
      [] f = "re_sub"        -> re_sub(a[1], a[2], a[3])
      [] f = "json_loads"    -> json_loads(a[1])
      [] f = "create_safe_json_from_parts" -> create_safe_json_from_parts(a[1])
      [] f = "fix_json_structure"          -> fix_json_structure(a[1])
      [] f = "VClean"                      -> VClean(a[1])
      [] f = "sanitize_json_strings"       -> sanitize_json_strings(a[1])
      [] f = "fix_thai_json"               -> fix_thai_json(a[1])
      [] f = "GClean"                      -> GClean(a[1])
      [] f = "GValidate"                   -> GValidate(a[1])
      [] f = "HandleResponse"              -> HandleResponse(a[1])
      [] f = "validate_article_json"       -> validate_article_json(a[1])
      [] f = "FixTrace"                    -> FixTrace(a[1])
      [] f = "Normalize"                   -> Normalize(a[1])
      [] f = "CleanTrace"                  -> CleanTrace(a[1])
      [] f = "ValidateTrace"               -> ValidateTrace(a[1])
      [] f = "EnsureRequiredFields"        -> EnsureRequiredFields(a[1], a[2])
      [] f = "ParseResponse"               -> ParseResponse(a[1], a[2], a[3])
      [] f = "generate_article"            -> generate_article(a[1], a[2], a[3])
      [] f = "clean_source_content"        -> clean_source_content(a[1])
      [] f = "parse_article"               -> parse_article(a[1], a[2])
      [] f = "Outcome"                     -> Outcome(a[1], a[2], a[3])
      [] f = "ValidateOutcome"             -> ValidateOutcome(a[1])
      [] f = "render_article_preview"      -> render_article_preview(a[1])
      [] f = "main"                        -> main(a[1], a[2], a[3])
      [] f = "combine_articles"            -> combine_articles(a[1], a[2], a[3])

(***************************** model inputs ********************************)
QS(w) == <<Quote, w, Quote>>
\* "k": "v"
Prop(k, v) == QS(k) \o <<":", SP>> \o QS(v)
Comma == <<",", SP>>

\* {"content": {"intro": "x"}}: JSON without the title field
NoTitleText == <<"{">> \o QS("content") \o <<":", SP, "{">> \o Prop("intro", "x")
                   \o <<"}", "}">>
\* {"content": "x"}
FlatNoTitleText == <<"{">> \o Prop("content", "x") \o <<"}">>
\* the fenced response of the end-to-end scenario, two closing braces missing
ScenarioBody ==
    <<"{">> \o Prop("title", "Bitcoin Rally") \o Comma \o QS("content")
        \o <<":", SP, "{">> \o Prop("intro", "Price surged") \o Comma
        \o QS("sections") \o <<":", SP, "[", "]">> \o Comma
        \o Prop("conclusion", "Stay tuned")
ScenarioText == <<Fence, "json", NL>> \o ScenarioBody \o <<NL, Fence>>
\* plain prose on two lines
ProseText == <<"Hello world", NL, "x">>
SeoObject ==
    <<"{">> \o Prop("slug", "x") \o Comma \o Prop("metaTitle", "x") \o Comma
        \o Prop("metaDescription", "x") \o Comma \o Prop("excerpt", "x") \o Comma
        \o Prop("imagePrompt", "x") \o Comma \o Prop("altText", "x") \o <<"}">>
\* a complete article with one section
FullDoc(sections) ==
    <<"{">> \o Prop("title", "x") \o Comma \o QS("content") \o <<":", SP, "{">>
        \o Prop("intro", "x") \o Comma \o QS("sections") \o <<":", SP>> \o sections
        \o Comma \o Prop("conclusion", "x") \o <<"}">> \o Comma
        \o QS("seo") \o <<":", SP>> \o SeoObject \o <<"}">>
OneSection == <<"[", "{">> \o Prop("heading", "x") \o <<"}", "]">>
Fenced(t) == <<Fence, "json", NL>> \o t \o <<NL, Fence>>
\* {"title": "x", "content": "x", "seo": "x"}: content is not an object
ScalarContentText ==
    <<"{">> \o Prop("title", "x") \o Comma \o Prop("content", "x") \o Comma
        \o Prop("seo", "x") \o <<"}">>

\* what the model stub can answer with text
ResponseTexts ==
    {NoTitleText, FlatNoTitleText, ScenarioText, ProseText, ScalarContentText,
     Fenced(FullDoc(OneSection)), FullDoc(OneSection), Fenced(FullDoc(<<"[", "]">>)),
     Fenced(FullDoc(QS("x"))), <<"{", "}">>, <<SP>>}

\* bounds of the generated responses
MaxDepth == 1     \* objects nested inside objects
MaxTrunc == 2     \* lexemes a truncated response lacks at its end

\* string values: plain, with dollar signs, with braces, with Thai text
StringBodies == {<<"x">>, <<"$", "x">>, <<"x", "$", "y">>, <<"{", "x", "}">>,
                 <<Thai, "$", "x">>}
Keys == {"title", "x"}

RECURSIVE ObjectTexts(_)
\* well-formed object literals nested up to depth d
ObjectTexts(d) ==
    IF d = 0
    THEN {<<"{", "}">>}
           \cup {<<"{">> \o QS(k) \o <<":", SP, Quote>> \o b \o <<Quote, "}">> :
                    k \in Keys, b \in StringBodies}
    ELSE LET inner == ObjectTexts(d - 1) IN
         inner \cup {<<"{">> \o QS("content") \o <<":", SP>> \o o \o <<"}">> : o \in inner}
               \cup {<<"{">> \o QS("content") \o <<":", SP>> \o o \o Comma
                         \o Prop("title", "x") \o <<"}">> : o \in inner}

\* where the object stands in the response
Wrap(w, t) ==
    CASE w = "bare"   -> t
      [] w = "prose"  -> <<"x", SP>> \o t \o <<SP, "y">>
      [] w = "fenced" -> Fenced(t)

\* a response: its text and the complete object literal it contains (<<>>
\* when it was cut, or holds none)
Response(t, o) == [text |-> t, obj |-> o]

\* {"title": "x", "content": {"intro": {"Part 1": "x", "Part 2": "y"}, "x": "x"}}
\* with the title given
IntroText(title) ==
    <<"{">> \o QS("title") \o <<":", SP, Quote>> \o title \o <<Quote>> \o Comma
        \o QS("content") \o <<":", SP, "{">> \o QS("intro") \o <<":", SP, "{">>
        \o Prop("Part 1", "x") \o Comma \o Prop("Part 2", "y") \o <<"}">> \o Comma
        \o Prop("x", "x") \o <<"}", "}">>
\* texts with an intro object, whole and cut inside and after the intro
IntroTexts ==
    {SubSeq(IntroText(t), 1, Len(IntroText(t)) - j) :
        t \in {<<"Bitcoin Rally">>, <<"x", NL, "y">>, <<"x", BSl, "y">>},
        j \in {0, 2, 10, 12, 20}}
\* two properties with no comma between them
NoCommaText ==
    <<"{">> \o Prop("title", "x") \o <<SP>> \o Prop("x", "y") \o <<"}">>

RepairInputs ==
    {Response(Wrap(w, SubSeq(o, 1, Len(o) - j)), IF j = 0 THEN o ELSE <<>>) :
         o \in ObjectTexts(MaxDepth), j \in 0..MaxTrunc, w \in {"bare", "prose", "fenced"}}
      \cup {Response(t, <<>>) : t \in {<<>>, <<"Hello world">>, ProseText, <<"{", "}", "x">>,
                                        ScenarioText, NoTitleText}}
      \cup {Response(t, <<>>) : t \in IntroTexts \cup {NoCommaText}}
      \cup {Response(Fenced(FullDoc(OneSection)), FullDoc(OneSection)),
            Response(FullDoc(<<"[", "]">>), FullDoc(<<"[", "]">>))}

\* documents handed to generate_article, parse_article and the preview
X == JStr(<<"x">>)
Heading == KV("heading", X)
SectionValues ==
    {JObj(<<Heading>>),
     JObj(<<Heading, KV("format", JStr(<<"list">>)), KV("paragraphs", JArr(<<X, X>>))>>),
     JObj(<<Heading, KV("paragraphs", X)>>),
     JObj(<<Heading, KV("format", JStr(<<"list">>)), KV("paragraphs", JArr(<<>>)),
            KV("content", X)>>),
     JObj(<<Heading, KV("paragraphs", JArr(<<>>))>>),
     JObj(<<Heading, KV("format", JStr(<<"table">>)),
            KV("paragraphs", JArr(<<JArr(<<X>>), JArr(<<X>>)>>))>>),
     X,
     JArr(<<JStr(<<"format">>), JStr(<<"paragraphs">>)>>)}
SectionsValues ==
    {JArr(<<>>), X, JArr(<<JObj(<<Heading>>), JObj(<<Heading, KV("paragraphs", X)>>)>>)}
        \cup {JArr(<<sec>>) : sec \in SectionValues}
IntroOpts == {<<>>, <<KV("intro", X)>>, <<KV("intro", JObj(<<KV("Part 1", X)>>))>>}
ContentValues ==
    {X, JObj(<<>>)}
        \cup {JObj(i \o sec \o c) :
                 i \in IntroOpts,
                 sec \in {<<>>} \cup {<<KV("sections", v)>> : v \in SectionsValues},
                 c \in {<<>>, <<KV("conclusion", X)>>}}
SeoValue == JObj([i \in 1..Len(RequiredSeo) |-> KV(RequiredSeo[i], X)])
TitleOpts == {<<>>, <<KV("title", X)>>, <<KV("title", JStr(<<"$", "x">>))>>}
SeoOpts == {<<>>, <<KV("seo", SeoValue)>>, <<KV("SEO", SeoValue)>>}
\* {"title": "x", "content": {}}
TitleOnlyDoc == JObj(<<KV("title", X), KV("content", JObj(<<>>))>>)
CompleteContent(sections) ==
    JObj(<<KV("intro", X), KV("sections", sections), KV("conclusion", X)>>)
ArticleDocs ==
    {JObj(<<KV("title", JStr(<<"$", "x">>))>> \o c) :
        c \in {<<>>} \cup {<<KV("content", v)>> : v \in ContentValues}}
      \cup {JObj(t \o <<KV("content", v)>> \o seo) :
               t \in TitleOpts, seo \in SeoOpts,
               v \in {JObj(<<>>), CompleteContent(JArr(<<>>)),
                      CompleteContent(JArr(<<JObj(<<Heading>>)>>)),
                      CompleteContent(X)}}
      \cup {JObj(<<>>),
            JObj(<<KV("title", X), KV("content", CompleteContent(JArr(<<JObj(<<Heading>>)>>))),
                   KV("media", JObj(<<KV("images", JArr(<<GeneratedImage>>))>>))>>)}
\* parsed values that are not a dict
ListValues ==
    {JArr(<<>>), X, JArr(<<X, TitleOnlyDoc>>),
     JArr(<<TitleOnlyDoc, JObj(<<KV("title", JStr(<<"y">>))>>)>>),
     JArr(<<X, JObj(<<KV("title", X), KV("content", CompleteContent(JArr(<<JObj(<<Heading>>)>>))),
                      KV("seo", SeoValue)>>)>>)}
\* keywords=None, or one keyword
Keywords == {<<>>, <<"Bitcoin Rally">>}

\* source texts: every text of up to MaxSourceLen characters
MaxSourceLen == 3
SourceChars == {"x", SP, NL, Ctl1, US}
SourceTexts == UNION {[1..n -> SourceChars] : n \in 0..MaxSourceLen}

ArticleInput(doc, kw, gen) == [doc |-> doc, kw |-> kw, gen |-> gen, text |-> <<>>]
ArticleInputs ==
    {ArticleInput(d, kw, gen) :
        d \in ArticleDocs \cup ListValues, kw \in Keywords, gen \in BOOLEAN}
      \cup {[doc |-> NoVal, kw |-> <<>>, gen |-> FALSE, text |-> t] : t \in SourceTexts}
NoInput  == [doc |-> NoVal, kw |-> <<>>, gen |-> FALSE, text |-> <<>>]
AOut(kind, doc, filled, missing, lines) ==
    [kind |-> kind, doc |-> doc, filled |-> filled, missing |-> missing, lines |-> lines,
     text |-> <<>>]
NoOutput == AOut("none", JObj(<<>>), FALSE, "", <<>>)

\* articles handed to combine_articles
Section(heading) == JObj(<<KV("heading", JStr(<<heading>>))>>)
Article(title, sections) ==
    JObj(<<KV("title", JStr(<<title>>)),
           KV("content", JObj(<<KV("intro", X), KV("sections", JArr(sections))>>))>>)
Image(url) == JObj(<<KV("url", JStr(<<url>>))>>)
WithMedia(article, images) ==
    ObjSet(article, "media", JObj(<<KV("images", JArr(images))>>))
PrimaryArticles ==
    {JObj(<<>>), JObj(<<KV("title", X)>>), Article("x", <<>>), Article("x", <<Section("x")>>),
     Article("x", <<Section("x"), Section("y")>>),
     Article("x", <<Section("x"), Section("y"), Section("title")>>),
     WithMedia(Article("x", <<Section("x")>>), <<Image("x")>>)}
SupplementaryArticles ==
    {Article("y", <<Section("x"), Section("y")>>),
     Article("y", <<Section("title"), JObj(<<KV("format", JStr(<<"list">>))>>)>>),
     WithMedia(Article("y", <<Section("y")>>), <<Image("x"), Image("y")>>),
     JObj(<<KV("title", X)>>)}
\* lists of up to MaxSupplementary articles
MaxSupplementary == 2
SupplementaryLists ==
    UNION {[1..n -> SupplementaryArticles] : n \in 0..MaxSupplementary}
\* max_sections: the default 8 and two small limits
MaxSectionsValues == {1, 2, 8}
CombineInput(primary, supplementary, max_sections) ==
    [primary |-> primary, supplementary |-> supplementary, max_sections |-> max_sections]
CombineInputs ==
    {CombineInput(p, sup, mx) :
        p \in PrimaryArticles, sup \in SupplementaryLists, mx \in MaxSectionsValues}
NoCombine == CombineInput(JObj(<<>>), <<>>, 0)
NoCombined == Combined(NoVal, NoVal, FALSE)

\* documents generate_article returns in the session: one with the key
\* seo, one with the key SEO and Thai text (the strict validation accepts
\* both; parse_article reads 'seo' only)
AppDocs ==
    {JObj(<<KV("title", X), KV("content", CompleteContent(JArr(<<JObj(<<Heading>>)>>))),
            KV("seo", SeoValue)>>),
     JObj(<<KV("title", JStr(<<"Bitcoin Rally">>)),
            KV("content", JObj(<<KV("intro", X), KV("sections", JArr(<<JObj(<<Heading>>)>>)),
                                 KV("conclusion", JStr(<<Thai, SP, "x">>))>>)),
            KV("SEO", SeoValue)>>)}
\* what generate_article returns: None, {}, or a document
GenerateReturns == {NoVal, JObj(<<>>)} \cup AppDocs
\* the answers of the CMS to the post request
CmsAnswers ==
    {CmsAnswer(201, TRUE), CmsAnswer(200, TRUE), CmsAnswer(201, FALSE), CmsAnswer(404, TRUE),
     CmsAnswer(500, TRUE), CmsAnswer(0, FALSE)}
RunInput(button, gen, image, media, answer) ==
    [button |-> button, gen |-> gen, image |-> image, media |-> media, answer |-> answer]
\* runs of main() in one session
MaxRuns == 4

(********************** make_gemini_request ********************************)
VARIABLES pc, attempt, calls, sleeps, outcomes, result, error,
          input, inobj, indoc, rpc, rop, rtext, rtrace, rresult,
          ain, apc, aop, aout,
          session_state, outside, lastRun, runs,
          cin, cpc, cout

vars == <<pc, attempt, calls, sleeps, outcomes, result, error,
          input, inobj, indoc, rpc, rop, rtext, rtrace, rresult,
          ain, apc, aop, aout, session_state, outside, lastRun, runs, cin, cpc, cout>>
retryVars   == <<pc, attempt, calls, sleeps, outcomes, result, error>>
repairVars  == <<input, inobj, indoc, rpc, rop, rtext, rtrace, rresult>>
articleVars == <<ain, apc, aop, aout>>
appVars     == <<session_state, outside, lastRun, runs>>
combineVars == <<cin, cpc, cout>>

\* for attempt in range(3)
MaxAttempts == 3
NoResult == [kind |-> "none", doc |-> JObj(<<>>), missing |-> ""]

RetryInit ==
    /\ pc = "call" /\ attempt = 0 /\ calls = 0 /\ sleeps = <<>> /\ outcomes = <<>>
    /\ result = NoResult /\ error = ""
RepairIdle ==
    /\ input = <<>> /\ inobj = <<>> /\ indoc = PFail(1) /\ rpc = "idle" /\ rop = ""
    /\ rtext = <<>> /\ rtrace = <<>> /\ rresult = NoResult
RetryOff ==
    /\ pc = "off" /\ attempt = 0 /\ calls = 0 /\ sleeps = <<>> /\ outcomes = <<>>
    /\ result = NoResult /\ error = ""
ArticleIdle ==
    /\ ain = NoInput /\ apc = "idle" /\ aop = "" /\ aout = NoOutput
AppIdle ==
    /\ session_state = NewSession /\ outside = NewWorld /\ lastRun = NoRun /\ runs = 0
CombineIdle ==
    /\ cin = NoCombine /\ cpc = "idle" /\ cout = NoCombined

Init == RetryInit /\ RepairIdle /\ ArticleIdle /\ AppIdle /\ CombineIdle

\* the except clause of the loop: re-raise on the last attempt, else go on
\* to time.sleep(2 ** attempt)
Caught(e) ==
    IF attempt = MaxAttempts - 1
    THEN /\ pc' = "raised" /\ error' = e /\ UNCHANGED attempt
    ELSE /\ pc' = "sleep" /\ UNCHANGED <<attempt, error>>

\* generate_content raises (timeout, non-2xx)
ModelRaises ==
    /\ pc = "call"
    /\ calls' = calls + 1
    /\ outcomes' = Append(outcomes, [kind |-> "raise", text |-> <<>>])
    /\ Caught("transport")
    /\ UNCHANGED <<sleeps, result, repairVars, articleVars, appVars, combineVars>>

\* a wait that does not grow
SleepFlat ==
    /\ pc = "sleep"
    /\ sleeps' = Append(sleeps, 1)
    /\ attempt' = attempt + 1
    /\ pc' = "call"
    /\ UNCHANGED <<calls, outcomes, result, error, repairVars, articleVars, appVars, combineVars>>

\* time.sleep(2 ** attempt), then the next turn of the loop
Sleep ==
    /\ pc = "sleep"
    /\ sleeps' = Append(sleeps, 2 ^ attempt)
    /\ attempt' = attempt + 1
    /\ pc' = "call"
    /\ UNCHANGED <<calls, outcomes, result, error, repairVars, articleVars, appVars, combineVars>>

\* generate_content returns no response or an empty response.text: the
\* loop goes on at once; after the last turn the function raises
\* Exception("Failed to get valid response ...")
ModelReturnsEmpty ==
    /\ pc = "call"
    /\ calls' = calls + 1
    /\ outcomes' = Append(outcomes, [kind |-> "empty", text |-> <<>>])
    /\ IF attempt = MaxAttempts - 1
       THEN /\ pc' = "raised" /\ error' = "exhausted" /\ UNCHANGED attempt
       ELSE /\ pc' = "call" /\ attempt' = attempt + 1 /\ UNCHANGED error
    /\ UNCHANGED <<sleeps, result, repairVars, articleVars, appVars, combineVars>>

\* a loop that takes another turn after a response gave the return value
HandledAndGoesOn(t, h) ==
    /\ calls' = calls + 1
    /\ outcomes' = Append(outcomes, [kind |-> "text", text |-> t])
    /\ IF h.kind = "attr_error"
       THEN Caught("attr_error") /\ UNCHANGED result
       ELSE /\ result' = h /\ UNCHANGED error
            /\ IF attempt = MaxAttempts - 1
               THEN pc' = "returned" /\ UNCHANGED attempt
               ELSE pc' = "call" /\ attempt' = attempt + 1

\* the turn of the loop for response text t, h being what lines 136-171
\* make of it
Handled(t, h) ==
    /\ calls' = calls + 1
    /\ outcomes' = Append(outcomes, [kind |-> "text", text |-> t])
    /\ IF h.kind = "attr_error"
       THEN Caught("attr_error") /\ UNCHANGED result
       ELSE /\ pc' = "returned" /\ result' = h
            /\ UNCHANGED <<attempt, error>>

\* generate_content returns text
ModelReturnsText ==
    /\ pc = "call"
    /\ \E t \in ResponseTexts : Handled(t, Call("HandleResponse", <<t>>))
    /\ UNCHANGED <<sleeps, repairVars, articleVars, appVars, combineVars>>

Next == ModelRaises \/ Sleep \/ ModelReturnsEmpty \/ ModelReturnsText

Spec == Init /\ [][Next]_vars

\* The loop is straight-line code: a started call to the model comes
\* back (with text, empty or with an exception) and time.sleep ends, so
\* a step that can be taken is taken.
FairSpec == Spec /\ WF_vars(Next)

(************************* the repair functions ****************************)
\* one response text is handed to one of the repair functions
RepairInit ==
    /\ RetryOff /\ ArticleIdle /\ AppIdle /\ CombineIdle
    /\ \E r \in RepairInputs :
          /\ input = r.text /\ inobj = r.obj
          /\ indoc = Call("json_loads", <<r.text>>)
    /\ rpc = "start" /\ rop = "" /\ rtext = <<>> /\ rtrace = <<>> /\ rresult = NoResult

\* the function ran: its stages, the text it produced and what json.loads
\* makes of that text
Ran(op, o) ==
    /\ rpc = "start"
    /\ rpc' = "done" /\ rop' = op /\ rtrace' = o.trace
    /\ rtext' = o.text
    /\ rresult' = o.result
    /\ UNCHANGED <<retryVars, input, inobj, indoc, articleVars, appVars, combineVars>>

\* validation.clean_gemini_response(input)
RunClean == Ran("clean_gemini_response", Call("Outcome", <<"CleanTrace", "", input>>))

\* validation.fix_json_structure(input)
RunFix == Ran("fix_json_structure", Call("Outcome", <<"FixTrace", "", input>>))

\* validation.sanitize_json_strings(input)
RunSanitize ==
    Ran("sanitize_json_strings",
        Call("Outcome", <<"sanitize_json_strings", "sanitize", input>>))

\* validation.fix_thai_json(input)
RunThai == Ran("fix_thai_json", Call("Outcome", <<"fix_thai_json", "fix_thai_json", input>>))

\* gemini.clean_gemini_response(input)
RunGClean == Ran("gemini.clean_gemini_response", Call("Outcome", <<"GClean", "extract", input>>))

\* validation.validate_article_json(input)
RunValidate == Ran("validate_article_json", Call("ValidateOutcome", <<input>>))

\* validation.create_safe_json_from_parts(input)
RunSalvage ==
    Ran("create_safe_json_from_parts",
        Call("Outcome", <<"create_safe_json_from_parts", "salvage", input>>))

RepairNext ==
    RunClean \/ RunFix \/ RunSanitize \/ RunThai \/ RunGClean \/ RunValidate \/ RunSalvage

RepairSpec == RepairInit /\ [][RepairNext]_vars

(************************** generate_article *******************************)
\* one value is handed to one of the functions that work on a document
ArticleInit ==
    /\ RetryOff /\ RepairIdle /\ AppIdle /\ CombineIdle
    /\ ain \in ArticleInputs
    /\ apc = "start" /\ aop = "" /\ aout = NoOutput

Applied(op, out) ==
    /\ apc = "start"
    /\ apc' = "done" /\ aop' = op /\ aout' = out
    /\ UNCHANGED <<retryVars, repairVars, ain, appVars, combineVars>>

\* what generate_article returned
Generated(r) == AOut(r.kind, r.doc, r.filled, "", <<>>)

\* what the filling step gave: the document, {} for an exception
Filled(e) ==
    IF e.ok /\ e.val.v # <<>> THEN AOut("doc", e.val, TRUE, "", <<>>)
    ELSE AOut("empty", JObj(<<>>), TRUE, "", <<>>)

\* what the strict validation returned
Validated(v) == AOut(v.kind, v.doc, FALSE, v.missing, <<>>)

\* the parts parse_article and the preview made
Shown(r) == AOut(r.kind, r.doc, FALSE, "", r.parts)

\* generate_article, from the return of make_gemini_request (a dict) on
GenerateArticle ==
    /\ IsObj(ain.doc)
    /\ Applied("generate_article",
               Generated(Call("generate_article", <<ain.doc, ain.kw, ain.gen>>)))

\* generate_article lines 298-333 on a parsed value
EnsureFields ==
    /\ ain.doc # NoVal
    /\ Applied("EnsureRequiredFields",
               Filled(Call("EnsureRequiredFields", <<ain.doc, ain.kw>>)))

\* gemini.validate_article_json on the JSON text of a value
ValidateStrict ==
    /\ ain.doc # NoVal
    /\ Applied("gemini.validate_article_json",
               Validated(Call("GValidate", <<JsonDumps(ain.doc)>>)))

\* clean_source_content on a source text
CleanSource ==
    /\ ain.doc = NoVal
    /\ Applied("clean_source_content",
               [NoOutput EXCEPT !.kind = "text",
                                !.text = Call("clean_source_content", <<ain.text>>)])

\* text_utils.parse_article on the article (gen: add_affiliate_note)
ParseArticle ==
    /\ ain.doc # NoVal
    /\ Applied("parse_article", Shown(Call("parse_article", <<ain.doc, ain.gen>>)))

\* app.render_article_preview on the article
RenderPreview ==
    /\ ain.doc # NoVal
    /\ Applied("render_article_preview", Shown(Call("render_article_preview", <<ain.doc>>)))

ArticleNext ==
    \/ GenerateArticle \/ EnsureFields \/ ValidateStrict \/ CleanSource
    \/ ParseArticle \/ RenderPreview

ArticleSpec == ArticleInit /\ [][ArticleNext]_vars

(*************************** app.py: main **********************************)
AppInit ==
    /\ RetryOff /\ RepairIdle /\ ArticleIdle /\ CombineIdle
    /\ session_state = NewSession /\ outside = NewWorld /\ lastRun = NoRun /\ runs = 0

\* the script ran once more: st is what main() left
Rerun(st) ==
    /\ runs < MaxRuns
    /\ runs' = runs + 1
    /\ session_state' = st.session /\ outside' = st.world /\ lastRun' = st.run
    /\ UNCHANGED <<retryVars, repairVars, articleVars, combineVars>>

\* a run no button started (a widget changed, the page was reloaded)
RunPlain ==
    \E image \in BOOLEAN :
        Rerun(Call("main", <<session_state, outside,
                             RunInput("none", NoVal, image, FALSE, CmsAnswer(0, FALSE))>>))

\* "Generate Article" was pressed
RunGenerate ==
    \E gen \in GenerateReturns, image \in BOOLEAN :
        Rerun(Call("main", <<session_state, outside,
                             RunInput("generate", gen, image, FALSE, CmsAnswer(0, FALSE))>>))

\* "Upload Article to WordPress" was pressed: the button is on the page
\* only when the run before showed the article area
RunUpload ==
    /\ session_state.article # <<>> /\ lastRun.ended = ""
    /\ \E media \in BOOLEAN, answer \in CmsAnswers :
          Rerun(Call("main", <<session_state, outside,
                               RunInput("upload", NoVal, FALSE, media, answer)>>))

AppNext == RunPlain \/ RunGenerate \/ RunUpload

AppSpec == AppInit /\ [][AppNext]_vars

(************************** combine_articles *******************************)
CombineInit ==
    /\ RetryOff /\ RepairIdle /\ ArticleIdle /\ AppIdle
    /\ cin \in CombineInputs /\ cpc = "start" /\ cout = NoCombined

\* the call combine_articles(primary, supplementary, max_sections)
CombineArticles ==
    /\ cpc = "start"
    /\ cpc' = "done"
    /\ cout' = Call("combine_articles", <<cin.primary, cin.supplementary, cin.max_sections>>)
    /\ UNCHANGED <<retryVars, repairVars, articleVars, appVars, cin>>

CombineNext == CombineArticles

CombineSpec == CombineInit /\ [][CombineNext]_vars

(****************** generate_article, the whole call ***********************)
\* generate_article(client, transcripts, keywords, ...) with the request
\* it makes: make_gemini_request is the retry machine above, which is off
\* when the function returns before the request.
MaxTranscripts == 1
GenerateInputs ==
    {[transcripts |-> n, kw |-> kw, gen |-> gen] :
        n \in 0..MaxTranscripts, kw \in Keywords, gen \in BOOLEAN}

\* the exception leaves generate_article
Reraised(e) == AOut("raise", JObj(<<>>), FALSE, e, <<>>)
\* "except Exception as e: st.error(...); return {}"
CaughtError(e) == AOut("empty", JObj(<<>>), FALSE, e, <<>>)
\* "if not transcripts: return None"
NoArticle == AOut("none", NoVal, FALSE, "", <<>>)

GenerateInit ==
    /\ RepairIdle /\ AppIdle /\ CombineIdle
    /\ ain \in GenerateInputs
    /\ apc = "start" /\ aop = "" /\ aout = NoOutput
    /\ IF ain.transcripts = 0 THEN RetryOff ELSE RetryInit

\* no transcripts: None, before any request
ReturnNone ==
    /\ pc = "off"
    /\ Applied("generate_article", NoArticle)

\* make_gemini_request raised: the outer except clause
RequestRaised ==
    /\ pc = "raised"
    /\ Applied("generate_article", CaughtError(error))

\* make_gemini_request returned a dict: lines 120-364
RequestReturned ==
    /\ pc = "returned"
    /\ Applied("generate_article",
               Generated(Call("generate_article", <<result.doc, ain.kw, ain.gen>>)))

GenerateNext == Next \/ ReturnNone \/ RequestRaised \/ RequestReturned

GenerateSpec == GenerateInit /\ [][GenerateNext]_vars

(******************************* claims ************************************)
AllOutcomes(kind) == outcomes # <<>> /\ \A i \in 1..Len(outcomes) : outcomes[i].kind = kind
LastText == outcomes[Len(outcomes)].text
\* d[k1][k2] is the string t
StrAt(d, k1, k2, t) ==
    /\ ObjHas(d, <<k1>>) /\ ObjHas(ObjGet(d, <<k1>>), <<k2>>)
    /\ ObjGet(ObjGet(d, <<k1>>), <<k2>>) = JStr(t)

RECURSIVE StringsOf(_), StringsOfAll(_)
\* the string values of a document, in document order
StringsOf(d) ==
    CASE d.t = "str" -> <<d.v>>
      [] d.t = "obj" -> StringsOfAll([i \in 1..Len(d.v) |-> d.v[i].val])
      [] d.t = "arr" -> StringsOfAll(d.v)
      [] OTHER       -> <<>>
StringsOfAll(a) == IF a = <<>> THEN <<>> ELSE StringsOf(Head(a)) \o StringsOfAll(Tail(a))

\* C1: when every call returns text whose JSON lacks the title field,
\* make_gemini_request never returns: it calls the model exactly MaxAttempts
\* times and then raises.
C1_RetryOnMissingTitle ==
    (/\ AllOutcomes("text")
     /\ \A i \in 1..Len(outcomes) : outcomes[i].text \in {NoTitleText, FlatNoTitleText})
        => /\ pc # "returned"
           /\ pc = "raised" => calls = MaxAttempts

\* C2: when every call raises, the function waits 1 s after the first
\* failure and 2 s after the second, makes at most MaxAttempts calls, and
\* after the third failure raises to the caller; nothing follows the raise.
C2_TransportBackoff ==
    AllOutcomes("raise")
        => /\ calls = Len(outcomes) /\ calls <= MaxAttempts
           /\ pc # "returned"
           /\ pc = "sleep" => sleeps = SubSeq(<<1, 2>>, 1, calls - 1)
           /\ pc = "call" => sleeps = SubSeq(<<1, 2>>, 1, calls)
           /\ pc = "raised" => /\ calls = MaxAttempts /\ sleeps = <<1, 2>>
                               /\ error = "transport" /\ ~ENABLED Next

\* C2, witness: three calls raised, two waits were made, the error reached
\* the caller
C2_Raised ==
    AllOutcomes("raise") /\ pc = "raised" /\ calls = MaxAttempts /\ Len(sleeps) = 2

\* C3: validation.clean_gemini_response yields, for every response text, a
\* document with title and content.intro populated.
C3_RepairTotal ==
    (rpc = "done" /\ rop = "clean_gemini_response")
        => /\ rresult.kind = "parsed" /\ IsObj(rresult.doc)
           /\ HasTruthy(rresult.doc, <<"title">>)
           /\ HasTruthy(rresult.doc, <<"content">>)
           /\ HasTruthy(ObjGet(rresult.doc, <<"content">>), <<"intro">>)

\* C4: on a well-formed JSON object, parsing the output of
\* clean_gemini_response, fix_json_structure or sanitize_json_strings gives
\* the document that parsing the input gives.
C4_RepairIdempotent ==
    (/\ rpc = "done"
     /\ rop \in {"clean_gemini_response", "fix_json_structure", "sanitize_json_strings"}
     /\ indoc.ok /\ IsObj(indoc.val))
        => rresult.kind = "parsed" /\ rresult.doc = indoc.val

\* C5: the text the balancing step of fix_json_structure produces has as
\* many opening as closing braces outside string literals: a scan of it
\* ends at depth 0 and meets no unmatched closing brace.
C5_BracesBalanced ==
    \A i \in 1..Len(rtrace) :
        rtrace[i].stage = "balance"
            => LET sc == BalanceScan(rtrace[i].text)
               IN sc.depth = 0 /\ sc.out = rtrace[i].text

\* C6: fix_json_structure, sanitize_json_strings and fix_thai_json leave
\* the string values of a well-formed document as they are.
C6_StringsPreserved ==
    (/\ rpc = "done"
     /\ rop \in {"fix_json_structure", "sanitize_json_strings", "fix_thai_json"}
     /\ indoc.ok /\ IsObj(indoc.val))
        => rresult.kind = "parsed" /\ StringsOf(rresult.doc) = StringsOf(indoc.val)

\* C7: extraction returns the complete object literal of the response, and
\* the raw text when the response has neither a fence nor an object.
C7_WholeObject ==
    (rpc = "done" /\ rop \in {"clean_gemini_response", "gemini.clean_gemini_response"})
        => /\ inobj # <<>> => rtrace[1].text = inobj
           /\ (~Contains(input, "{") /\ ~Contains(input, Fence))
                  => rtrace[1].text = input

\* C8: the fenced response that lacks its two closing braces is repaired
\* and accepted: the returned document has the title, the empty sections
\* list and the conclusion of the response.
C8_TruncatedFenced ==
    (pc = "returned" /\ LastText = ScenarioText)
        => /\ result.kind = "doc"
           /\ ObjHas(result.doc, <<"title">>)
           /\ ObjGet(result.doc, <<"title">>) = JStr(<<"Bitcoin Rally">>)
           /\ ObjHas(result.doc, <<"content">>)
           /\ ObjGetOr(ObjGet(result.doc, <<"content">>), "sections", NoVal) = JArr(<<>>)
           /\ StrAt(result.doc, "content", "conclusion", <<"Stay tuned">>)

\* C9: in a run of validate_article_json a stage runs only after every
\* earlier stage gave unparseable text, and the escaping stage runs only
\* after extraction and brace balancing were tried.
C9_StageOrder ==
    (rpc = "done" /\ rop = "validate_article_json")
        => \A i \in 1..Len(rtrace) :
              /\ \A j \in 1..(i - 1) : ~rtrace[j].ok
              /\ rtrace[i].stage = "sanitize"
                    => \E j, k \in 1..(i - 1) :
                          rtrace[j].stage = "extract" /\ rtrace[k].stage = "balance"

\* C10: a response that does not start with an opening brace after
\* trimming is returned as the synthesized document: its content.intro is
\* the response text and its title the first line.
C10_PlainTextFallback ==
    (pc = "returned" /\ ~StartsWith(Strip(LastText), "{"))
        => /\ result.kind = "fallback"
           /\ StrAt(result.doc, "content", "intro", LastText)
           /\ ObjGetOr(result.doc, "title", NoVal) = JStr(Strip(FirstLine(LastText)))

\* every required seo field of the document is there and truthy
SeoFilled(doc) ==
    /\ ObjHas(doc, <<"seo">>) /\ IsObj(ObjGet(doc, <<"seo">>))
    /\ \A i \in 1..Len(RequiredSeo) : HasTruthy(ObjGet(doc, <<"seo">>), <<RequiredSeo[i]>>)

\* {"content": {}, "title": "x"}, whole or cut short at its end
TitleOnlyText ==
    <<"{">> \o QS("content") \o <<":", SP, "{", "}">> \o Comma \o Prop("title", "x")
        \o <<"}">>
TitleOnlyInputs ==
    {SubSeq(TitleOnlyText, 1, Len(TitleOnlyText) - j) : j \in 0..MaxTrunc}

\* C11: validation.validate_article_json, given the document with a title
\* and an empty content, returns a document with content.sections = [], a
\* non-empty content.conclusion and every seo field non-empty.
C11_ValidatorDefaults ==
    (rpc = "done" /\ rop = "validate_article_json" /\ input \in TitleOnlyInputs)
        => /\ rresult.kind = "doc"
           /\ ObjHas(rresult.doc, <<"content">>)
           /\ ObjGetOr(ObjGet(rresult.doc, <<"content">>), "sections", NoVal) = JArr(<<>>)
           /\ HasTruthy(ObjGet(rresult.doc, <<"content">>), <<"conclusion">>)
           /\ SeoFilled(rresult.doc)

\* the value under the first key that lowercases to 'seo'
SeoOf(doc) ==
    LET ks == {i \in 1..Len(doc.v) : LowerKey(doc.v[i].k) = <<"seo">>}
    IN IF ~IsObj(doc) \/ ks = {} THEN NoVal
       ELSE doc.v[CHOOSE i \in ks : \A j \in ks : i <= j].val
SeoFieldsTruthy(seo) ==
    IsObj(seo) /\ \A i \in 1..Len(RequiredSeo) : HasTruthy(seo, <<RequiredSeo[i]>>)

\* C12: every non-empty document make_gemini_request returns has a
\* non-empty title, a content.intro, a sequence as content.sections, a
\* non-empty content.conclusion and six non-empty seo fields.
C12_ReturnedDocumentValid ==
    (pc = "returned" /\ result.doc.v # <<>>)
        => /\ HasTruthy(result.doc, <<"title">>)
           /\ ObjHas(result.doc, <<"content">>)
           /\ ObjHas(ObjGet(result.doc, <<"content">>), <<"intro">>)
           /\ ObjHas(ObjGet(result.doc, <<"content">>), <<"sections">>)
           /\ IsArr(ObjGet(ObjGet(result.doc, <<"content">>), <<"sections">>))
           /\ HasTruthy(ObjGet(result.doc, <<"content">>), <<"conclusion">>)
           /\ SeoFieldsTruthy(SeoOf(result.doc))

\* C13: gemini.validate_article_json accepts a document whose
\* content.sections is the empty sequence when the title, content.intro,
\* content.conclusion and the seo fields are there and non-empty.
C13_EmptySectionsLegal ==
    (/\ apc = "done" /\ aop = "gemini.validate_article_json"
     /\ HasTruthy(ain.doc, <<"title">>)
     /\ ObjHas(ain.doc, <<"content">>)
     /\ ObjGet(ain.doc, <<"content">>) = CompleteContent(JArr(<<>>))
     /\ SeoFieldsTruthy(SeoOf(ain.doc)))
        => aout.kind = "doc" /\ aout.doc = ain.doc

\* a mandatory field of the document is missing or empty
MissingMandatory(doc) ==
    \/ ~HasTruthy(doc, <<"title">>)
    \/ ~HasTruthy(doc, <<"content">>)
    \/ /\ IsObj(ObjGet(doc, <<"content">>))
       /\ \/ ~HasTruthy(ObjGet(doc, <<"content">>), <<"intro">>)
          \/ ~HasTruthy(ObjGet(doc, <<"content">>), <<"conclusion">>)
    \/ SeoOf(doc) = NoVal
    \/ IsObj(SeoOf(doc)) /\ ~SeoFieldsTruthy(SeoOf(doc))

\* C14: when a mandatory field is missing, gemini.validate_article_json
\* does not return a value: an error reaches its caller.
C14_SchemaErrorRaised ==
    (/\ apc = "done" /\ aop = "gemini.validate_article_json"
     /\ IsObj(ain.doc) /\ ain.doc.v # <<>> /\ MissingMandatory(ain.doc))
        => aout.kind \notin {"doc", "empty"}

\* the keys of a dict value, in order
KeysOf(d) == [i \in 1..Len(d.v) |-> d.v[i].k[1]]
\* "t" stands in src, between two quotes
QuotedIn(t, src) ==
    \E p \in 1..(Len(src) - Len(t) - 1) :
        SubSeq(src, p, p + Len(t) + 1) = <<Quote>> \o t \o <<Quote>>
\* the text the i-th stage of the run worked on
StageSource(i) == IF i = 1 THEN input ELSE rtrace[i - 1].text
\* d is a minimal document made of parts of src: a title and a content
\* that holds at most the intro with its Part 1 and Part 2
MinimalFrom(d, src) ==
    /\ IsObj(d) /\ KeysOf(d) = <<"title", "content">>
    /\ IsStr(ObjGet(d, <<"title">>))
    /\ \/ ObjGet(d, <<"title">>).v = <<"Untitled Article">>
       \/ QuotedIn(ObjGet(d, <<"title">>).v, src)
    /\ LET content == ObjGet(d, <<"content">>) IN
       /\ IsObj(content) /\ KeysOf(content) \in {<<>>, <<"intro">>}
       /\ ObjHas(content, <<"intro">>)
             => LET intro == ObjGet(content, <<"intro">>) IN
                /\ IsObj(intro)
                /\ KeysOf(intro) \in {<<"Part 1">>, <<"Part 2">>, <<"Part 1", "Part 2">>}
                /\ \A i \in 1..Len(intro.v) :
                      IsStr(intro.v[i].val) /\ QuotedIn(intro.v[i].val.v, src)

\* C15: create_safe_json_from_parts returns, for every text, JSON that
\* parses to a minimal document: the title and the intro parts found in the
\* text and nothing else; it ends every run of fix_json_structure whose
\* repairs did not give parseable text.
C15_SalvageTerminal ==
    \A i \in 1..Len(rtrace) :
        /\ rtrace[i].stage = "salvage"
              => /\ rtrace[i].ok /\ i = Len(rtrace)
                 /\ MinimalFrom(JsonLoads(rtrace[i].text).val, StageSource(i))
        /\ (i = Len(rtrace) /\ rop = "fix_json_structure" /\ ~rtrace[i].ok)
              => rtrace[i].stage = "salvage"

\* C15, witness: the salvage found a title and both parts of the intro
C15_Salvaged ==
    /\ rpc = "done" /\ rop = "create_safe_json_from_parts"
    /\ rresult.kind = "parsed"
    /\ ObjGet(rresult.doc, <<"title">>) = JStr(<<"x", NL, "y">>)
    /\ ObjHas(ObjGet(rresult.doc, <<"content">>), <<"intro">>)
    /\ KeysOf(ObjGet(ObjGet(rresult.doc, <<"content">>), <<"intro">>)) = <<"Part 1", "Part 2">>

\* the text without separators, whitespace and closing braces, from an
\* opening brace on: what neither an inserted comma nor the balancing of
\* braces changes
KeyValueText(t) ==
    LET kept == SelectSeq(t, LAMBDA ch : ch \notin WSCh \cup {",", "}"})
    IN IF StartsWith(kept, "{") THEN kept ELSE <<"{">> \o kept

\* C16: the separator repair of fix_json_structure only inserts commas: the
\* keys and values of the repaired text are those of the input.
C16_SeparatorRepairKeepsText ==
    (rpc = "done" /\ rop = "fix_json_structure")
        => \A i \in 1..Len(rtrace) :
              rtrace[i].stage = "balance"
                  => KeyValueText(rtrace[i].text) = KeyValueText(input)

\* the first element of the sequence that is a mapping
FirstMapping(a) ==
    a[CHOOSE i \in 1..Len(a) : IsObj(a[i]) /\ \A j \in 1..(i - 1) : ~IsObj(a[j])]

SectionsOf(doc) ==
    LET content == ObjGetOr(doc, "content", JObj(<<>>))
        secs == ObjGetOr(content, "sections", JArr(<<>>))
    IN IF IsArr(secs) THEN secs.v ELSE <<>>

\* the section has a format and a paragraphs field, and they are the ones
\* of the section it was made from when that one had them
SectionNormalized(sec, from) ==
    /\ IsObj(sec) /\ ObjHas(sec, <<"format">>) /\ ObjHas(sec, <<"paragraphs">>)
    /\ \A i \in 1..Len(from.v) : ObjGetOr(sec, from.v[i].k[1], NoVal) = from.v[i].val
    /\ ~ObjHas(from, <<"format">>) => ObjGet(sec, <<"format">>) = JStr(<<"paragraph">>)
    /\ ~ObjHas(from, <<"paragraphs">>) => ObjGet(sec, <<"paragraphs">>) = JArr(<<>>)

\* C18: in every document generate_article returns, each section has a
\* format ('paragraph' when the response had none) and a paragraphs
\* sequence (empty when the response had none), and the fields a section
\* of the response had are unchanged.
C18_SectionDefaults ==
    (apc = "done" /\ aop = "generate_article" /\ aout.kind = "doc")
        => /\ Len(SectionsOf(aout.doc)) = Len(SectionsOf(ain.doc))
           /\ \A i \in 1..Len(SectionsOf(aout.doc)) :
                 /\ IsObj(SectionsOf(ain.doc)[i])
                 /\ SectionNormalized(SectionsOf(aout.doc)[i], SectionsOf(ain.doc)[i])

\* whitespace characters of a source text
IsSpace(ch) == ch \in WSCh \cup {CR, US}

\* C19: for every source text clean_source_content returns a text with no
\* whitespace at its start or end and no two whitespace characters in a row.
C19_SourceWhitespace ==
    (apc = "done" /\ aop = "clean_source_content")
        => /\ aout.kind = "text"
           /\ aout.text # <<>> => ~IsSpace(Head(aout.text))
                                  /\ ~IsSpace(aout.text[Len(aout.text)])
           /\ \A i \in 1..(Len(aout.text) - 1) :
                 ~(IsSpace(aout.text[i]) /\ IsSpace(aout.text[i + 1]))

\* the parts shown for section i of the article
SectionParts(i) == SelectSeq(aout.lines, LAMBDA p : p.sec = i)

\* what the function applied shows for a section
ShownFor(i, section) ==
    IF aop = "parse_article" THEN ParseSection(i, section) ELSE RenderSection(i, section)

\* a heading line, the placeholder line or a blank line
PlaceholderOnly(part) ==
    \/ part.val = JStr(<<Placeholder>>)
    \/ part.val = JStr(<<>>)
    \/ IsStr(part.val) /\ StartsWith(part.val.v, "##")

\* C20: parse_article and render_article_preview show a section whose
\* paragraphs value is a bare scalar as they show the same section with the
\* one-element sequence of that scalar, and for a section whose paragraphs
\* sequence is empty they show the placeholder line and, besides the heading
\* and blank lines, nothing else.
C20_ParagraphsSequence ==
    (/\ apc = "done" /\ aop \in {"parse_article", "render_article_preview"}
     /\ aout.kind \in {"parsed", "rendered", "error"}
     /\ IsObj(ain.doc) /\ IsObj(ObjGetOr(ain.doc, "content", JObj(<<>>))))
        => \A i \in 1..Len(SectionsOf(ain.doc)) :
              LET section == SectionsOf(ain.doc)[i] IN
              (IsObj(section) /\ ObjHas(section, <<"paragraphs">>))
                 => LET paragraphs == ObjGet(section, <<"paragraphs">>) IN
                    /\ ~IsArr(paragraphs)
                          => SectionParts(i)
                               = ShownFor(i, ObjSet(section, "paragraphs",
                                                    JArr(<<JStr(PyStr(paragraphs))>>)))
                    /\ paragraphs = JArr(<<>>)
                          => /\ \E j \in 1..Len(SectionParts(i)) :
                                   SectionParts(i)[j].val = JStr(<<Placeholder>>)
                             /\ \A j \in 1..Len(SectionParts(i)) :
                                   PlaceholderOnly(SectionParts(i)[j])

\* C21: the cache (st.session_state.article) holds the document of the most
\* recent generation that succeeded - json.loads of the cached text gives
\* that document - and a generation that fails leaves it as it was; before
\* the first success there is no cached article.
C21_LastResultCache ==
    IF outside.generated = NoVal THEN session_state.article = <<>>
    ELSE /\ JsonLoads(session_state.article).ok
         /\ JsonLoads(session_state.article).val = outside.generated

\* a generation failed after one that had succeeded
C21_FailedAfterSuccess ==
    /\ lastRun.button = "generate" /\ ~lastRun.generated
    /\ outside.generated # NoVal /\ session_state.article # <<>>

\* the last request sent to the posts endpoint
LastRequest == outside.requests[Len(outside.requests)]
Uploaded == lastRun.button = "upload" /\ lastRun.ended = "" /\ outside.requests # <<>>

\* C22: submit_article_to_wordpress always posts with status 'draft'; it
\* returns the post and records pending_edit_url when the CMS answers 200 or
\* 201, and only then: on any other status and on an exception it returns
\* None and records no pending_edit_url.
C22_SubmitDraft ==
    Uploaded =>
        /\ LastRequest.data.status = "draft"
        /\ (lastRun.result # NoVal \/ lastRun.recorded # <<>>)
               => lastRun.answer.status \in {200, 201}
        /\ (lastRun.answer.status \notin {200, 201} \/ ~lastRun.answer.json)
               => (lastRun.result = NoVal /\ lastRun.recorded = <<>>)
        /\ (lastRun.answer.status \in {200, 201} /\ lastRun.answer.json)
               => (lastRun.result # NoVal /\ lastRun.recorded # <<>>)

\* the CMS refused a post: nothing was returned and nothing recorded
C22_Refused ==
    /\ Uploaded /\ lastRun.answer.status = 500
    /\ lastRun.result = NoVal /\ lastRun.recorded = <<>>

\* C23: when the upload of a run recorded pending_edit_url, the next run
\* opens that URL in the browser, once, and a run that follows a run which
\* recorded none opens nothing.
C23_RedirectAfterUpload ==
    [][IF lastRun.recorded # <<>>
       THEN outside'.opened = Append(outside.opened, lastRun.recorded)
       ELSE outside'.opened = outside.opened]_vars

\* C26: the processed article sent by an upload is parse_article of the
\* article the cache holds at that moment.
C26_ProcessedFromCache ==
    Uploaded =>
        LastRequest.parsed
            = Call("parse_article", <<JsonLoads(LastRequest.article).val, FALSE>>)

\* C27: a post carries a featured_media id only when the image upload of the
\* same upload action returned that id; when that upload fails, or there is
\* none, the post has no featured_media.
C27_FeaturedImageFresh ==
    Uploaded => LastRequest.data.featured_media = lastRun.media_info

\* the sections of an article, none when it has no content.sections
SectionsGiven(article) == IF HasSections(article) THEN SectionsIn(article) ELSE <<>>
\* the images of an article, none when it has no media.images
ImagesOf(article) ==
    IF IsObj(article) /\ ObjHas(article, <<"media">>)
       /\ ObjHas(ObjGet(article, <<"media">>), <<"images">>)
    THEN ObjGet(ObjGet(article, <<"media">>), <<"images">>).v ELSE <<>>

\* C24: the article combine_articles returns has at most max_sections
\* sections, for every primary article and every list of supplementary
\* articles.
C24_AtMostMaxSections ==
    cpc = "done" => Len(SectionsGiven(cout.result)) <= cin.max_sections

\* C25: combine_articles leaves the primary_article object it was given
\* as it was: the caller's object has the same value (sections and media
\* included) after the call as before, and whatever was added is on
\* another object.
C25_PrimaryUntouched ==
    cpc = "done" =>
        /\ cout.primary = cin.primary
        /\ cout.result # cin.primary => ~cout.same
\* a call that added a section and an image to the result
C25_AddedOnCopy ==
    /\ cpc = "done"
    /\ Len(SectionsGiven(cout.result)) > Len(SectionsGiven(cin.primary))
    /\ Len(ImagesOf(cout.result)) > Len(ImagesOf(cin.primary))

C29_ValidateGivesDict ==
    (rpc = "done" /\ rop = "validate_article_json") =>
        /\ rresult.kind \in {"doc", "empty"}
        /\ rresult.kind = "empty" => rresult.doc = JObj(<<>>)
        /\ rresult.kind = "doc" =>
              /\ ObjHas(rresult.doc, <<"seo">>) /\ ObjHas(rresult.doc, <<"media">>)
              /\ ObjHas(ObjGet(rresult.doc, <<"content">>), <<"sections">>)
              /\ ObjHas(ObjGet(rresult.doc, <<"content">>), <<"conclusion">>)

\* make_gemini_request is over: it returned or it raised
Terminated == pc \in {"returned", "raised"}
\* C30: whatever the model produces (empty responses, exceptions, invalid
\* documents), make_gemini_request calls it at least once and at most
\* three times, makes no call once a response has given the return value,
\* and comes to an end by returning or raising.
C30_BoundedModelCalls ==
    /\ [](calls <= MaxAttempts /\ (Terminated => calls >= 1))
    /\ [][(pc = "returned" \/ result # NoResult) => calls' = calls]_vars
    /\ <>Terminated
\* three calls, an exception, then an empty response, then a document
C30_ThirdCallReturns ==
    /\ pc = "returned" /\ calls = MaxAttempts /\ Len(outcomes) = MaxAttempts
    /\ outcomes[1].kind = "raise" /\ outcomes[2].kind = "empty"
    /\ outcomes[3].kind = "text"

====
